---- MODULE Spec2Model ----
(***************************************************************************)
(* Weapon stat resolution of model/gurps/weapon.go: bonus aggregation      *)
(* (collectWeaponBonuses / extractWeaponBonus), resolved accuracy and      *)
(* minimum strength, skill level, range, parry and block string           *)
(* resolution, cloning and the content hash; and the attribute             *)
(* prerequisite of attribute_prereq.go.                                    *)
(***************************************************************************)
EXTENDS Integers, Sequences, FiniteSets, TLC

VARIABLES
    weapon,     \* the Weapon: WeaponData fields that the resolvers read
    owner,      \* w.Owner: kind, entity, rated strength, tags, features, modifiers
    entity,     \* the owning Entity: type, strengths, collected bonus lists
    feat,       \* the heap of feature objects, by identity (pointer)
    op,         \* the call that returned last ("idle" before any call)
    ret,        \* what that call returned
    tooltip,    \* the caller's tooltip buffer after that call
    pre,        \* the heap as it was when that call started
    procs,      \* concurrent resolutions: each goroutine's position and locals
    mutex,      \* the per-entity mutex: whether callers use one, and its holder
    rng,        \* range resolution: the loop state of ResolvedRange
    hasher,     \* hashing: the digest being written and the HashCode results
    prereq,     \* prerequisites: the attribute leaves and their evaluations
    val,        \* parry / block resolution: the line loop of resolvedValue
    store       \* cloning: the weapons, defaults and features behind pointers

vars == <<weapon, owner, entity, feat, op, ret, tooltip, pre, procs, mutex, rng,
          hasher, prereq, val, store>>

----------------------------------------------------------------------------
(* Bounds of the model. *)

\* Stored WeaponAcc / ScopeAcc / MinST are drawn from -1..MaxStored.
MaxStored == 2
\* Bonus amounts are drawn from -MaxAmount..MaxAmount.
MaxAmount == 2
\* Die counts handed to collectWeaponBonuses are drawn from 1..MaxDieCount.
MaxDieCount == 2

----------------------------------------------------------------------------
(* fxp.Int: a fixed-point number with four decimal digits, held as the     *)
(* scaled integer.                                                         *)

FxpMultiplier == 10000

From(n) == n * FxpMultiplier

\* The sentinels fxp.Min and fxp.Max (the least and greatest fxp.Int).
FxpMin == -2147483647
FxpMax == 2147483647

FxpMaxOf(a, b) == IF a > b THEN a ELSE b

\* Go's integer division truncates toward zero.
Quot(a, b) == IF a >= 0 THEN a \div b ELSE -((-a) \div b)

Trunc(f) == Quot(f, FxpMultiplier) * FxpMultiplier

\* (a * b) / multiplier without leaving the checker's integer width.
MulAbs(a, b) ==
    (a \div FxpMultiplier) * b + ((a % FxpMultiplier) * b) \div FxpMultiplier

Abs(a) == IF a < 0 THEN -a ELSE a

Mul(a, b) ==
    IF (a < 0) = (b < 0) THEN MulAbs(Abs(a), Abs(b)) ELSE -MulAbs(Abs(a), Abs(b))

----------------------------------------------------------------------------
(* Feature types, selection types and criteria. *)

WeaponBonusFeatureType         == "weapon_bonus"
WeaponAccBonusFeatureType      == "weapon_acc_bonus"
WeaponScopeAccBonusFeatureType == "weapon_scope_acc_bonus"
WeaponMinSTBonusFeatureType    == "weapon_min_st_bonus"
ConditionalModifierFeatureType == "conditional_modifier"
SkillBonusFeatureType          == "skill_bonus"

WithRequiredSkillWeaponSelectionType == "weapons_with_required_skill"
ThisWeaponWeaponSelectionType        == "this_weapon"
WithNameWeaponSelectionType          == "weapons_with_name"
\* A selection type outside the known kinds (data inconsistency).
UnknownSelectionType                 == "unknown"

AnyCriteria   == [Compare |-> "any", Qualifier |-> ""]
IsCriteria(q) == [Compare |-> "is", Qualifier |-> q]

\* StringCriteria.Matches
Matches(c, s) ==
    CASE c.Compare = "any"    -> TRUE
      [] c.Compare = "is"     -> s = c.Qualifier
      [] c.Compare = "is_not" -> s # c.Qualifier
      [] OTHER                -> FALSE

\* StringCriteria.MatchesList: a negative comparison must hold of every
\* element, any other of at least one; an empty list is matched as "".
MatchesList(c, list) ==
    IF list = {} THEN Matches(c, "")
    ELSE IF c.Compare = "is_not" THEN \A s \in list : Matches(c, s)
    ELSE \E s \in list : Matches(c, s)

----------------------------------------------------------------------------
(* The owner graph. *)

NoOwner == [kind |-> "none", entity |-> "none", RatedStrength |-> 0,
            Levels |-> 0, Tags |-> {}, Description |-> "",
            Features |-> <<>>, Modifiers |-> <<>>]

\* Weapon.String
WString(w, o) == IF o.kind = "none" THEN "" ELSE o.Description

\* Mutant: any owning entity is taken for a PC.
HasPC_AnyEntity(o, e) == o.kind # "none" /\ o.entity # "none"

\* Weapon.PC: the owning entity, if there is one and it is a PC.
HasPC(o, e) == o.kind # "none" /\ o.entity # "none" /\ e.Type = "pc"

\* A tooltip buffer: nil, or the lines written so far.
NilBuf   == [isNil |-> TRUE, lines |-> <<>>]
EmptyBuf == [isNil |-> FALSE, lines |-> <<>>]

\* LeveledAmount.AdjustedAmount: the amount, times the level when per level.
AdjustedAmount(f) == IF f.PerLevel THEN Mul(f.Amount, f.Level) ELSE f.Amount

\* Bonus.AddToTooltip: one line naming the bonus and its adjusted amount;
\* nothing on a nil buffer.
AddToTooltip(id, f, buf) ==
    IF buf.isNil THEN buf
    ELSE [buf EXCEPT !.lines =
            Append(@, [src |-> id, amount |-> AdjustedAmount(f),
                       level |-> f.Level, sub |-> f.subOwner])]

\* WeaponBonus.DerivedLevel: the levels of the leveled modifier or trait
\* the bonus sits on, else zero.
DerivedLevel(f, o) ==
    IF f.subOwner # 0 /\ f.subOwner \in DOMAIN o.Modifiers
          /\ o.Modifiers[f.subOwner].Levels # 0
    THEN o.Modifiers[f.subOwner].Levels
    ELSE IF o.kind = "trait" THEN o.Levels ELSE 0

----------------------------------------------------------------------------
(* Skill defaults. *)

\* SkillDefault.SkillBased: the default names a skill (or a skill's parry
\* or block), not an attribute.
SkillBased(def) == def.Type \in {"skill", "parry", "block"}

\* SkillDefault.SkillLevelFast: the level the entity resolves the default
\* to, or fxp.Min when the entity has no such skill.
SkillLevelFast(e, def) ==
    IF def.Type = "dx" THEN e.DX + def.Modifier
    ELSE IF def.Name \in DOMAIN e.Skills THEN e.Skills[def.Name] + def.Modifier
    ELSE FxpMin

\* The first skill-based default with the greatest level (0: none), as the
\* loop of collectWeaponBonuses finds it: a later default replaces the best
\* only when strictly greater.
RECURSIVE BestDefFrom(_, _, _, _, _)
BestDefFrom(e, defs, i, best, bestIdx) ==
    IF i > Len(defs) THEN bestIdx
    ELSE LET level == SkillLevelFast(e, defs[i])
         IN  IF SkillBased(defs[i]) /\ best < level
             THEN BestDefFrom(e, defs, i + 1, level, i)
             ELSE BestDefFrom(e, defs, i + 1, best, bestIdx)

\* Mutant: on a tie the later default replaces the earlier one.
BestDef_LastMaximum(e, defs) ==
    LET ok == {i \in DOMAIN defs : SkillBased(defs[i])
                                      /\ SkillLevelFast(e, defs[i]) > FxpMin}
    IN  IF ok = {} THEN 0
        ELSE CHOOSE i \in ok :
               \A j \in ok :
                  \/ SkillLevelFast(e, defs[j]) < SkillLevelFast(e, defs[i])
                  \/ (SkillLevelFast(e, defs[j]) = SkillLevelFast(e, defs[i]) /\ j <= i)

BestDef(e, defs) == BestDefFrom(e, defs, 1, FxpMin, 0)

----------------------------------------------------------------------------
(* extractWeaponBonus, step by step.  The aggregation state st is          *)
(* [feat, set, tip, log]: the heap, the bonus set (a map keyed by          *)
(* pointer), the tooltip buffer and the diagnostics logged.                *)

\* Mutant: a *WeaponBonus of any feature type is looked at.
Applies_AnyType(f, allowed) == f.goType = "WeaponBonus"

\* Only a *WeaponBonus of an allowed feature type is looked at.
Applies(f, allowed) == f.Type \in allowed /\ f.goType = "WeaponBonus"

\* The level written for the duration of the call.
TransientLevel(f, o, dieCount) ==
    IF f.Type = WeaponBonusFeatureType THEN dieCount ELSE DerivedLevel(f, o)

\* Mutant: a this-weapon bonus is selected whatever its criteria.
Selected_ThisWeaponUnconditional(w, o, f) ==
    CASE f.SelectionType = ThisWeaponWeaponSelectionType -> TRUE
      [] f.SelectionType = WithNameWeaponSelectionType ->
            /\ Matches(f.NameCriteria, WString(w, o))
            /\ Matches(f.SpecializationCriteria, w.Usage)
            /\ MatchesList(f.TagsCriteria, o.Tags)
      [] OTHER -> FALSE

\* Mutant: a with-name bonus is selected without its tag criteria.
Selected_IgnoresTags(w, o, f) ==
    CASE f.SelectionType = ThisWeaponWeaponSelectionType ->
            Matches(f.SpecializationCriteria, w.Usage)
      [] f.SelectionType = WithNameWeaponSelectionType ->
            /\ Matches(f.NameCriteria, WString(w, o))
            /\ Matches(f.SpecializationCriteria, w.Usage)
      [] OTHER -> FALSE

\* Whether the selection switch reaches the "add to set" statement.
Selected(w, o, f) ==
    CASE f.SelectionType = WithRequiredSkillWeaponSelectionType -> FALSE
      [] f.SelectionType = ThisWeaponWeaponSelectionType ->
            Matches(f.SpecializationCriteria, w.Usage)
      [] f.SelectionType = WithNameWeaponSelectionType ->
            /\ Matches(f.NameCriteria, WString(w, o))
            /\ Matches(f.SpecializationCriteria, w.Usage)
            /\ MatchesList(f.TagsCriteria, o.Tags)
      [] OTHER -> FALSE

\* Mutant: the with-required-skill case falls to the default branch.
KnownSelection_LogsRequiredSkill(f) ==
    f.SelectionType \in {ThisWeaponWeaponSelectionType, WithNameWeaponSelectionType}

\* The default branch of the switch logs the selection type.
KnownSelection(f) ==
    f.SelectionType \in {WithRequiredSkillWeaponSelectionType,
                         ThisWeaponWeaponSelectionType,
                         WithNameWeaponSelectionType}

\* Mutant: the tooltip line is written whether or not the bonus is in the set.
AddIfAbsent_Always(st, id) ==
    [st EXCEPT !.set = @ \cup {id},
               !.tip = AddToTooltip(id, st.feat[id], @)]

\* Mutant: a bonus equal in value to one already in the set is skipped.
AddIfAbsent_ByValue(st, id) ==
    IF \E x \in st.set :
          [st.feat[x] EXCEPT !.subOwner = 0, !.Level = 0]
              = [st.feat[id] EXCEPT !.subOwner = 0, !.Level = 0]
    THEN st
    ELSE [st EXCEPT !.set = @ \cup {id},
                    !.tip = AddToTooltip(id, st.feat[id], @)]

\* if _, exists := set[bonus]; !exists { set[bonus] = true; AddToTooltip }
AddIfAbsent(st, id) ==
    IF id \in st.set THEN st
    ELSE [st EXCEPT !.set = @ \cup {id},
                    !.tip = AddToTooltip(id, st.feat[id], @)]

\* Mutant: the transient level lands in the amount.
WriteLevel_IntoAmount(st, w, o, id, dieCount) ==
    [st EXCEPT !.feat[id].Amount = TransientLevel(st.feat[id], o, dieCount)]

\* bonus.LeveledAmount.Level = <transient>
WriteLevel(st, w, o, id, dieCount) ==
    [st EXCEPT !.feat[id].Level = TransientLevel(st.feat[id], o, dieCount)]

\* The switch on bonus.SelectionType.
SelectStep(st, w, o, id) ==
    IF Selected(w, o, st.feat[id]) THEN AddIfAbsent(st, id)
    ELSE IF ~KnownSelection(st.feat[id])
         THEN [st EXCEPT !.log = Append(@, st.feat[id].SelectionType)]
         ELSE st

\* Mutant: the saved level is not written back.
RestoreLevel_Skip(st, id, level) == st

\* bonus.LeveledAmount.Level = level
RestoreLevel(st, id, level) == [st EXCEPT !.feat[id].Level = level]

\* Mutant: the level is not saved, so the zero value is restored.
SaveLevel_Zero(heap, id) == 0

\* level := bonus.LeveledAmount.Level
SaveLevel(heap, id) == heap[id].Level

extractWeaponBonus(st, w, o, id, allowed, dieCount) ==
    IF ~Applies(st.feat[id], allowed) THEN st
    ELSE LET level == SaveLevel(st.feat, id)
         IN  RestoreLevel(
                 SelectStep(WriteLevel(st, w, o, id, dieCount), w, o, id),
                 id, level)

----------------------------------------------------------------------------
(* The entity's own passes, over the bonuses it gathered from every        *)
(* active item.                                                            *)

\* addWeaponBonusToMap: level set for the tooltip line, then restored.
AddWeaponBonusToMap(st, o, id, dieCount) ==
    LET level   == st.feat[id].Level
        written == [st EXCEPT !.feat[id].Level =
                        TransientLevel(st.feat[id], o, dieCount)]
    IN  RestoreLevel(AddIfAbsent(written, id), id, level)

RECURSIVE EntityPass(_, _, _, _, _, _, _, _, _)
EntityPass(st, o, list, sel, name, usage, tags, allowed, dieCount) ==
    IF list = <<>> THEN st
    ELSE LET id   == Head(list)
             f    == st.feat[id]
             hit  == /\ f.goType = "WeaponBonus"
                     /\ f.Type \in allowed
                     /\ f.SelectionType = sel
                     /\ Matches(f.NameCriteria, name)
                     /\ Matches(f.SpecializationCriteria, usage)
                     /\ MatchesList(f.TagsCriteria, tags)
             next == IF hit THEN AddWeaponBonusToMap(st, o, id, dieCount) ELSE st
         IN  EntityPass(next, o, Tail(list), sel, name, usage, tags,
                        allowed, dieCount)

\* Entity.AddWeaponWithSkillBonusesFor
AddWeaponWithSkillBonusesFor(st, o, e, def, allowed, dieCount) ==
    EntityPass(st, o, e.weaponBonuses, WithRequiredSkillWeaponSelectionType,
               def.Name, def.Specialization, o.Tags, allowed, dieCount)

\* Entity.AddNamedWeaponBonusesFor
AddNamedWeaponBonusesFor(st, w, o, e, allowed, dieCount) ==
    EntityPass(st, o, e.weaponBonuses, WithNameWeaponSelectionType,
               WString(w, o), w.Usage, o.Tags, allowed, dieCount)

----------------------------------------------------------------------------
(* collectWeaponBonuses. *)

\* Bonus.SetSubOwner, called on every Bonus found on a modifier.
SetSubOwner(st, id, mod) == [st EXCEPT !.feat[id].subOwner = mod]

IsBonus(f) == f.goType \in {"WeaponBonus", "SkillBonus", "ConditionalModifier"}

\* The features the traversal visits, in order: the owner's own feature
\* list (mod = 0), then, for a trait or equipment owner, the features of
\* each modifier.
RECURSIVE ModWork(_, _)
ModWork(mods, m) ==
    IF m > Len(mods) THEN <<>>
    ELSE [i \in 1..Len(mods[m].Features) |->
            [id |-> mods[m].Features[i], mod |-> m]] \o ModWork(mods, m + 1)

Worklist(o) ==
    [i \in 1..Len(o.Features) |-> [id |-> o.Features[i], mod |-> 0]]
    \o (IF o.kind \in {"trait", "equipment"} THEN ModWork(o.Modifiers, 1)
        ELSE <<>>)

\* One iteration of the feature loops.
VisitFeature(st, w, o, item, allowed, dieCount) ==
    LET st1 == IF item.mod # 0 /\ IsBonus(st.feat[item.id])
               THEN SetSubOwner(st, item.id, item.mod) ELSE st
    IN  extractWeaponBonus(st1, w, o, item.id, allowed, dieCount)

\* Mutant: the traversal stops at the first logged feature.
RECURSIVE VisitAll_StopsAfterLog(_, _, _, _, _, _)
VisitAll_StopsAfterLog(st, w, o, work, allowed, dieCount) ==
    IF work = <<>> \/ st.log # <<>> THEN st
    ELSE VisitAll_StopsAfterLog(VisitFeature(st, w, o, Head(work), allowed, dieCount),
                                w, o, Tail(work), allowed, dieCount)

RECURSIVE VisitAll(_, _, _, _, _, _)
VisitAll(st, w, o, work, allowed, dieCount) ==
    IF work = <<>> THEN st
    ELSE VisitAll(VisitFeature(st, w, o, Head(work), allowed, dieCount),
                  w, o, Tail(work), allowed, dieCount)

\* Mutant: the named pass runs before the skill-keyed pass.
EntityPasses_NamedFirst(st, w, o, e, allowed, dieCount) ==
    LET b   == BestDef(e, w.Defaults)
        st1 == AddNamedWeaponBonusesFor(st, w, o, e, allowed, dieCount)
    IN  IF b # 0
        THEN AddWeaponWithSkillBonusesFor(st1, o, e, w.Defaults[b], allowed, dieCount)
        ELSE st1

\* The part before the feature loops: the PC's skill-keyed and named passes.
EntityPasses(st, w, o, e, allowed, dieCount) ==
    LET b   == BestDef(e, w.Defaults)
        st1 == IF b # 0
               THEN AddWeaponWithSkillBonusesFor(st, o, e, w.Defaults[b],
                                                 allowed, dieCount)
               ELSE st
    IN  AddNamedWeaponBonusesFor(st1, w, o, e, allowed, dieCount)

NewAgg(heap, tip) == [feat |-> heap, set |-> {}, tip |-> tip, log |-> <<>>]

collectWeaponBonuses(w, o, e, heap, dieCount, tip, allowed) ==
    IF ~HasPC(o, e) THEN NewAgg(heap, tip)
    ELSE VisitAll(EntityPasses(NewAgg(heap, tip), w, o, e, allowed, dieCount),
                  w, o, Worklist(o), allowed, dieCount)

\* The sum the callers take over the returned bonuses of one type.
RECURSIVE SumAmounts(_, _, _)
SumAmounts(heap, ids, type) ==
    IF ids = {} THEN 0
    ELSE LET id == CHOOSE x \in ids : TRUE
         IN  (IF heap[id].Type = type THEN AdjustedAmount(heap[id]) ELSE 0)
             + SumAmounts(heap, ids \ {id}, type)

----------------------------------------------------------------------------
(* Resolved accuracy and minimum strength. *)

\* Weapon.ResolvedAccuracy: [weapon, scope, feat, tip]
ResolvedAccuracy(w, o, e, heap, tip) ==
    IF w.Jet THEN [weapon |-> 0, scope |-> 0, feat |-> heap, tip |-> tip]
    ELSE IF ~HasPC(o, e)
    THEN [weapon |-> w.WeaponAcc, scope |-> w.ScopeAcc, feat |-> heap, tip |-> tip]
    ELSE LET r == collectWeaponBonuses(w, o, e, heap, From(1), tip,
                    {WeaponAccBonusFeatureType, WeaponScopeAccBonusFeatureType})
             weaponAcc == w.WeaponAcc
                          + SumAmounts(r.feat, r.set, WeaponAccBonusFeatureType)
             scopeAcc  == w.ScopeAcc
                          + SumAmounts(r.feat, r.set, WeaponScopeAccBonusFeatureType)
         IN  [weapon |-> FxpMaxOf(weaponAcc, 0), scope |-> FxpMaxOf(scopeAcc, 0),
              feat |-> r.feat, tip |-> r.tip]

\* WeaponAccuracy.Validate
Validate(wa) == [Base |-> FxpMaxOf(wa.Base, 0), Scope |-> FxpMaxOf(wa.Scope, 0)]

\* WeaponAccuracy.Resolve: [Base, Scope, feat, tip]
Resolve(wa, w, o, e, heap, tip) ==
    IF w.Jet THEN [Base |-> 0, Scope |-> 0, feat |-> heap, tip |-> tip]
    ELSE LET r == IF HasPC(o, e)
                  THEN collectWeaponBonuses(w, o, e, heap, From(1), tip,
                         {WeaponAccBonusFeatureType, WeaponScopeAccBonusFeatureType})
                  ELSE NewAgg(heap, tip)
             v == Validate(
                    [Base  |-> wa.Base
                               + SumAmounts(r.feat, r.set, WeaponAccBonusFeatureType),
                     Scope |-> wa.Scope
                               + SumAmounts(r.feat, r.set, WeaponScopeAccBonusFeatureType)])
         IN  [Base |-> v.Base, Scope |-> v.Scope, feat |-> r.feat, tip |-> r.tip]

\* Mutant: the owner's rated strength is not consulted.
ResolvedMinimumStrength_IgnoresRated(w, o, e, heap, tip) ==
    LET r == collectWeaponBonuses(w, o, e, heap, From(1), tip,
                                  {WeaponMinSTBonusFeatureType})
    IN  [value |-> FxpMaxOf(w.MinST + SumAmounts(r.feat, r.set,
                                                WeaponMinSTBonusFeatureType), 0),
         feat |-> r.feat, tip |-> r.tip]

\* Weapon.ResolvedMinimumStrength: [value, feat, tip]
ResolvedMinimumStrength(w, o, e, heap, tip) ==
    IF o.kind # "none" /\ FxpMaxOf(o.RatedStrength, 0) # 0
    THEN [value |-> FxpMaxOf(o.RatedStrength, 0), feat |-> heap, tip |-> tip]
    ELSE LET r == collectWeaponBonuses(w, o, e, heap, From(1), tip,
                                       {WeaponMinSTBonusFeatureType})
         IN  [value |-> FxpMaxOf(w.MinST + SumAmounts(r.feat, r.set,
                                                     WeaponMinSTBonusFeatureType), 0),
              feat |-> r.feat, tip |-> r.tip]

----------------------------------------------------------------------------
(* Skill level. *)

\* strings.Contains(s, ch) for a single character.
Contains(str, ch) == \E i \in DOMAIN str : str[i] = ch

\* A tooltip line that no feature wrote (src 0).
NoteLine(what, amount) == [src |-> 0, what |-> what, amount |-> amount]

WriteNote(buf, what, amount) ==
    IF buf.isNil THEN buf
    ELSE [buf EXCEPT !.lines = Append(@, NoteLine(what, amount))]

\* Weapon.EncumbrancePenalty
EncumbrancePenalty(e, buf) ==
    [value |-> e.EncumbrancePenalty,
     tip   |-> IF e.EncumbrancePenalty # 0
               THEN WriteNote(buf, "encumbrance", e.EncumbrancePenalty) ELSE buf]

\* Weapon.skillLevelPostAdjustment
skillLevelPostAdjustment(w, e, buf) ==
    IF w.Type = "melee_weapon" /\ Contains(w.Parry, "F")
    THEN EncumbrancePenalty(e, buf)
    ELSE [value |-> 0, tip |-> buf]

\* Weapon.extractSkillBonusForThisWeapon, for feature id: [value, tip]
extractSkillBonusForThisWeapon(w, heap, id, buf) ==
    IF /\ heap[id].goType = "SkillBonus"
       /\ heap[id].SelectionType = ThisWeaponWeaponSelectionType
       /\ Matches(heap[id].SpecializationCriteria, w.Usage)
    THEN [value |-> AdjustedAmount(heap[id]), tip |-> AddToTooltip(id, heap[id], buf)]
    ELSE [value |-> 0, tip |-> buf]

RECURSIVE ThisWeaponSkillBonuses(_, _, _, _)
ThisWeaponSkillBonuses(w, heap, work, acc) ==
    IF work = <<>> THEN acc
    ELSE LET r == extractSkillBonusForThisWeapon(w, heap, Head(work).id, acc.tip)
         IN  ThisWeaponSkillBonuses(w, heap, Tail(work),
                                    [value |-> acc.value + r.value, tip |-> r.tip])

\* Entity.NamedWeaponSkillBonusesFor: the skill bonuses the entity gathered
\* that select weapons by name and match this one.
RECURSIVE NamedWeaponSkillBonusesFor(_, _, _, _, _)
NamedWeaponSkillBonusesFor(w, o, heap, list, acc) ==
    IF list = <<>> THEN acc
    ELSE LET id  == Head(list)
             f   == heap[id]
             hit == /\ f.goType = "SkillBonus"
                    /\ f.SelectionType = WithNameWeaponSelectionType
                    /\ Matches(f.NameCriteria, WString(w, o))
                    /\ Matches(f.SpecializationCriteria, w.Usage)
                    /\ MatchesList(f.TagsCriteria, o.Tags)
         IN  NamedWeaponSkillBonusesFor(w, o, heap, Tail(list),
                IF hit THEN [value |-> acc.value + AdjustedAmount(f),
                             tip |-> AddToTooltip(id, f, acc.tip)]
                ELSE acc)

\* Mutant: the shortfall is added instead of subtracted.
ShortfallPenalty_Added(minST) == IF minST > 0 THEN minST ELSE 0

\* The minimum-strength shortfall: what it adds to the adjustment.
ShortfallPenalty(minST) == IF minST > 0 THEN -minST ELSE 0

\* The body of skillLevelBaseAdjustment once the weapon's minimum strength
\* (st: the result of ResolvedMinimumStrength(nil)) is known.
baseAdjustmentWith(w, o, e, st, buf) ==
    LET minST == st.value - e.StrikingStrength
        tip1  == IF minST > 0 THEN WriteNote(buf, "minST", -minST) ELSE buf
        named == NamedWeaponSkillBonusesFor(w, o, st.feat, e.skillBonuses,
                    [value |-> ShortfallPenalty(minST), tip |-> tip1])
        own   == ThisWeaponSkillBonuses(w, st.feat, Worklist(o), named)
    IN  [value |-> own.value, feat |-> st.feat, tip |-> own.tip]

\* Weapon.skillLevelBaseAdjustment: [value, feat, tip]
skillLevelBaseAdjustment(w, o, e, heap, buf) ==
    baseAdjustmentWith(w, o, e, ResolvedMinimumStrength(w, o, e, heap, NilBuf), buf)

\* Mutant: the last applicable default wins, not the greatest.
RECURSIVE BestLevel_KeepsLast(_, _, _, _)
BestLevel_KeepsLast(e, defs, adj, best) ==
    IF defs = <<>> THEN best
    ELSE LET level == SkillLevelFast(e, Head(defs))
         IN  BestLevel_KeepsLast(e, Tail(defs), adj,
                                 IF level # FxpMin THEN level + adj ELSE best)

\* The best-of loop of SkillLevel: fxp.Min when no default applies.
RECURSIVE BestLevel(_, _, _, _)
BestLevel(e, defs, adj, best) ==
    IF defs = <<>> THEN best
    ELSE LET level == SkillLevelFast(e, Head(defs))
         IN  BestLevel(e, Tail(defs), adj,
                       IF level # FxpMin /\ best < level + adj
                       THEN level + adj ELSE best)

\* tooltip, then a newline and the primary tooltip when that is not empty.
AppendBuffer(buf, primary) ==
    IF buf.isNil \/ primary.isNil \/ primary.lines = <<>> THEN buf
    ELSE [buf EXCEPT !.lines = @ \o primary.lines]

\* The rest of SkillLevel once the base adjustment (base) is known: the post
\* adjustment, the best-of loop and the clamp.
SkillLevelWith(w, e, buf, base) ==
    LET post == skillLevelPostAdjustment(w, e, base.tip)
        best == BestLevel(e, w.Defaults, base.value + post.value, FxpMin)
    IN  IF best = FxpMin THEN [value |-> 0, feat |-> base.feat, tip |-> buf]
        ELSE [value |-> IF best < 0 THEN 0 ELSE best, feat |-> base.feat,
              tip |-> AppendBuffer(buf, post.tip)]

\* Weapon.SkillLevel: [value, feat, tip]
SkillLevel(w, o, e, heap, buf) ==
    IF ~HasPC(o, e) THEN [value |-> 0, feat |-> heap, tip |-> buf]
    ELSE SkillLevelWith(w, e, buf,
            skillLevelBaseAdjustment(w, o, e, heap,
                                     IF buf.isNil THEN NilBuf ELSE EmptyBuf))

----------------------------------------------------------------------------
(* Range resolution.  Text is a sequence of one-character strings.         *)

Digits == <<"0", "1", "2", "3", "4", "5", "6", "7", "8", "9">>

IsDigit(ch) == \E i \in DOMAIN Digits : Digits[i] = ch

DigitValue(ch) == (CHOOSE i \in DOMAIN Digits : Digits[i] = ch) - 1

\* strings.IndexByte, 1-based (0: not found).
IndexByte(str, ch) ==
    IF \E i \in DOMAIN str : str[i] = ch
    THEN CHOOSE i \in DOMAIN str : str[i] = ch /\ \A j \in 1..(i - 1) : str[j] # ch
    ELSE 0

RECURSIVE DigitsToInt(_, _)
DigitsToInt(str, acc) ==
    IF str = <<>> THEN acc
    ELSE DigitsToInt(Tail(str), acc * 10 + DigitValue(Head(str)))

RECURSIVE IntToDigits(_)
IntToDigits(n) ==
    IF n < 10 THEN <<Digits[n + 1]>>
    ELSE IntToDigits(n \div 10) \o <<Digits[(n % 10) + 1]>>

\* The digits after the decimal point as ten-thousandths: padded with
\* zeros, or cut, to four digits.
FractionValue(str) ==
    LET four == [i \in 1..4 |-> IF i <= Len(str) THEN str[i] ELSE "0"]
    IN  DigitsToInt(four, 0)

\* fxp.FromString of a run of digits with at most one decimal point.
FromString(str) ==
    LET dot == IndexByte(str, ".")
    IN  IF dot = 0 THEN DigitsToInt(str, 0) * FxpMultiplier
        ELSE DigitsToInt(SubSeq(str, 1, dot - 1), 0) * FxpMultiplier
             + FractionValue(SubSeq(str, dot + 1, Len(str)))

\* fxp.Int.String of a whole number.
FxpString(f) ==
    IF f < 0 THEN <<"-">> \o IntToDigits(Quot(-f, FxpMultiplier))
    ELSE IntToDigits(Quot(f, FxpMultiplier))

\* The scan loop of resolveRange: the first position at or after p whose
\* character is neither a digit nor the first decimal point.
RECURSIVE ScanNumber(_, _, _)
ScanNumber(str, p, decimal) ==
    IF p > Len(str) THEN p
    ELSE IF (~decimal /\ str[p] = ".") \/ IsDigit(str[p])
         THEN ScanNumber(str, p + 1, decimal \/ str[p] = ".")
         ELSE p

\* Mutant: the 'x' is kept in front of the product.
resolveRange_KeepsX(inRange, st) ==
    LET where == IndexByte(inRange, "x")
        skip  == IF where + 1 <= Len(inRange) /\ inRange[where + 1] = " "
                 THEN where + 2 ELSE where + 1
        last  == ScanNumber(inRange, skip, FALSE)
    IN  IF where = 0 \/ skip > Len(inRange) \/ last = skip THEN inRange
        ELSE SubSeq(inRange, 1, where)
             \o FxpString(Trunc(Mul(FromString(SubSeq(inRange, skip, last - 1)), st)))
             \o SubSeq(inRange, last, Len(inRange))

\* Weapon.resolveRange
resolveRange(inRange, st) ==
    LET where == IndexByte(inRange, "x")
        skip  == IF where + 1 <= Len(inRange) /\ inRange[where + 1] = " "
                 THEN where + 2 ELSE where + 1
        last  == ScanNumber(inRange, skip, FALSE)
    IN  IF where = 0 \/ skip > Len(inRange) \/ last = skip THEN inRange
        ELSE SubSeq(inRange, 1, where - 1)
             \o FxpString(Trunc(Mul(FromString(SubSeq(inRange, skip, last - 1)), st)))
             \o SubSeq(inRange, last, Len(inRange))

\* Mutant: the PC's throwing strength is preferred to the rated strength.
EffectiveStrength_ThrowingFirst(o, e) ==
    IF HasPC(o, e) /\ e.ThrowingStrength # 0 THEN e.ThrowingStrength
    ELSE IF o.kind # "none" THEN o.RatedStrength ELSE 0

\* The strength ResolvedRange multiplies by: the owner's rated strength,
\* else the PC's throwing strength, else 0.
EffectiveStrength(o, e) ==
    LET rated == IF o.kind # "none" THEN o.RatedStrength ELSE 0
    IN  IF rated # 0 THEN rated
        ELSE IF HasPC(o, e) THEN e.ThrowingStrength ELSE 0

\* Mutant: the loop stops after its first pass.
LoopDone_OnePass(savedRange, calcRange) == savedRange # <<>> \/ calcRange = <<>>

\* The exit test of the loop of ResolvedRange: for calcRange != savedRange.
LoopDone(savedRange, calcRange) == calcRange = savedRange

----------------------------------------------------------------------------
(* The worlds the resolvers are run on. *)

FeatureIds == {1, 2}

WeaponName  == "Axe"
WeaponUsage == "Swung"
WeaponTag   == "Melee"
SkillName   == "Axe/Mace"

\* Name / specialization / tags criteria of a bonus: everything, the
\* weapon's own values, the weapon's skill, or a mismatch in one of them.
CriteriaProfiles ==
    { [n |-> AnyCriteria, s |-> AnyCriteria, t |-> AnyCriteria],
      [n |-> IsCriteria(WeaponName), s |-> IsCriteria(WeaponUsage),
       t |-> IsCriteria(WeaponTag)],
      [n |-> IsCriteria(SkillName), s |-> AnyCriteria, t |-> AnyCriteria],
      [n |-> AnyCriteria, s |-> IsCriteria("Thrust"), t |-> AnyCriteria],
      [n |-> AnyCriteria, s |-> AnyCriteria, t |-> IsCriteria("Ranged")] }

SelectionTypes ==
    { WithRequiredSkillWeaponSelectionType, ThisWeaponWeaponSelectionType,
      WithNameWeaponSelectionType, UnknownSelectionType }

\* The Go type and FeatureType of a feature.
FeatureKinds ==
    { [goType |-> "WeaponBonus", Type |-> WeaponAccBonusFeatureType],
      [goType |-> "WeaponBonus", Type |-> WeaponMinSTBonusFeatureType],
      [goType |-> "WeaponBonus", Type |-> WeaponBonusFeatureType],
      [goType |-> "ConditionalModifier", Type |-> WeaponAccBonusFeatureType] }

MkFeature(kind, sel, crit, amount, perLevel, level, sub) ==
    [goType |-> kind.goType, Type |-> kind.Type, SelectionType |-> sel,
     NameCriteria |-> crit.n, SpecializationCriteria |-> crit.s,
     TagsCriteria |-> crit.t, Amount |-> amount, PerLevel |-> perLevel,
     Level |-> level, subOwner |-> sub]

MkModifier(features, levels) == [Features |-> features, Levels |-> levels]

\* Where the two features sit: on the owner, or on its first / second
\* modifier (the second one leveled).
Placements ==
    { [Features |-> <<1, 2>>, Modifiers |-> <<>>],
      [Features |-> <<1>>,
       Modifiers |-> <<MkModifier(<<2>>, 0)>>],
      [Features |-> <<>>,
       Modifiers |-> <<MkModifier(<<1>>, 0), MkModifier(<<2>>, From(3))>>],
      [Features |-> <<>>,
       Modifiers |-> <<MkModifier(<<1, 2>>, From(3))>>] }

\* The modifier a feature sits on (0: on the owner itself).
ModOf(o, id) ==
    IF \E m \in DOMAIN o.Modifiers :
          \E i \in DOMAIN o.Modifiers[m].Features : o.Modifiers[m].Features[i] = id
    THEN CHOOSE m \in DOMAIN o.Modifiers :
          \E i \in DOMAIN o.Modifiers[m].Features : o.Modifiers[m].Features[i] = id
    ELSE 0

MkOwner(kind, ent, rated, place) ==
    [kind |-> kind, entity |-> ent, RatedStrength |-> rated,
     Levels |-> IF kind = "trait" THEN From(2) ELSE 0,
     Tags |-> {WeaponTag}, Description |-> WeaponName,
     Features |-> place.Features,
     Modifiers |-> IF kind = "skill" THEN <<>> ELSE place.Modifiers]

SkillDefaultFor(name) ==
    [Type |-> "skill", Name |-> name, Specialization |-> "", Modifier |-> 0]

\* Parry, Block and Range are text: sequences of characters.
MkWeapon(jet, acc, scope, minST, defaults) ==
    [Type |-> "melee_weapon", Jet |-> jet, WeaponAcc |-> acc, ScopeAcc |-> scope,
     MinST |-> minST, Usage |-> WeaponUsage, Parry |-> <<"0">>, Block |-> <<>>,
     Range |-> <<>>, Defaults |-> defaults]

\* An entity; processed: the features its recalculation gathered from the
\* active items (an unequipped item's features are not among them).
MkEntity(type, st, skills, processed) ==
    [Type |-> type, StrikingStrength |-> st, ThrowingStrength |-> st,
     DX |-> From(10), Skills |-> skills, weaponBonuses |-> processed,
     skillBonuses |-> <<>>, EncumbrancePenalty |-> 0]

IdleRet == [kind |-> "none"]

NoMutex == [used |-> FALSE, holder |-> 0]

\* No digest in use, no prerequisite under evaluation, no text being
\* resolved, nothing cloned.
NoHasher == [state |-> "off"]

NoPrereq == [state |-> "off"]

NoValue == [pc |-> "off"]

NoStore == [state |-> "off"]

Quiet ==
    /\ op = "idle" /\ ret = IdleRet /\ tooltip = NilBuf /\ pre = feat
    /\ procs = <<>> /\ mutex = NoMutex /\ rng = [pc |-> "off"]
    /\ hasher = NoHasher /\ prereq = NoPrereq /\ val = NoValue /\ store = NoStore

\* The aggregation worlds: a PC with an axe whose owner carries two
\* features; feature 1 ranges over every kind, selection type and criteria,
\* feature 2 over the this-weapon bonuses that match.
Init ==
    /\ \E kind \in {"trait", "equipment", "skill"}, place \in Placements,
          active \in BOOLEAN :
          /\ kind = "skill" => place.Modifiers = <<>>
          /\ owner = MkOwner(kind, "present", 0, place)
          /\ entity = MkEntity("pc", From(10), (SkillName :> From(12)),
                               IF active THEN <<1, 2>> ELSE <<>>)
          /\ \E k1 \in FeatureKinds, s1 \in SelectionTypes, c1 \in CriteriaProfiles,
                k2 \in {k \in FeatureKinds : k.goType = "WeaponBonus"
                                               /\ k.Type # WeaponBonusFeatureType},
                s2 \in {ThisWeaponWeaponSelectionType} :
                feat = [id \in FeatureIds |->
                          IF id = 1
                          THEN MkFeature(k1, s1, c1, From(1), FALSE,
                                         IF active THEN From(4) ELSE 0,
                                         IF active THEN ModOf(owner, 1) ELSE 0)
                          ELSE MkFeature(k2, s2,
                                         [n |-> AnyCriteria, s |-> AnyCriteria,
                                          t |-> AnyCriteria],
                                         From(1), FALSE,
                                         IF active THEN From(4) ELSE 0,
                                         IF active THEN ModOf(owner, 2) ELSE 0)]
    /\ weapon = MkWeapon(FALSE, From(1), 0, From(8), <<SkillDefaultFor(SkillName)>>)
    /\ Quiet

----------------------------------------------------------------------------
(* The calls. *)

Buffers == {NilBuf, EmptyBuf}

AllowedSets ==
    { {WeaponAccBonusFeatureType, WeaponScopeAccBonusFeatureType},
      {WeaponMinSTBonusFeatureType},
      {WeaponBonusFeatureType} }

\* The returned slice holds each key of the map once (0: nil slice).
Returned(r) == [kind |-> "bonuses", set |-> r.set, len |-> Cardinality(r.set),
                log |-> r.log]

Finish(name, value, r) ==
    /\ op' = name
    /\ ret' = value
    /\ tooltip' = r.tip
    /\ pre' = feat
    /\ feat' = r.feat
    /\ UNCHANGED <<weapon, owner, entity, procs, mutex, rng, hasher, prereq, val, store>>

\* A caller of collectWeaponBonuses (the accuracy, minimum-strength and
\* damage resolvers).
Collect ==
    \E dieCount \in 1..MaxDieCount, allowed \in AllowedSets, buf \in {EmptyBuf} :
        /\ (dieCount > 1 => allowed = {WeaponBonusFeatureType})
        /\ LET r == collectWeaponBonuses(weapon, owner, entity, feat,
                                         From(dieCount), buf, allowed)
           IN  Finish("collect",
                      [Returned(r) EXCEPT !.kind = "bonuses"]
                        @@ [allowed |-> allowed, dieCount |-> dieCount], r)

CallResolvedAccuracy ==
    \E buf \in {EmptyBuf} :
        LET r == ResolvedAccuracy(weapon, owner, entity, feat, buf)
        IN  Finish("ResolvedAccuracy",
                   [kind |-> "acc", weapon |-> r.weapon, scope |-> r.scope], r)

CallResolve ==
    \E buf \in {EmptyBuf} :
        LET r == Resolve([Base |-> weapon.WeaponAcc, Scope |-> weapon.ScopeAcc],
                         weapon, owner, entity, feat, buf)
        IN  Finish("Resolve",
                   [kind |-> "acc", weapon |-> r.Base, scope |-> r.Scope], r)

CallResolvedMinimumStrength ==
    \E buf \in Buffers :
        LET r == ResolvedMinimumStrength(weapon, owner, entity, feat, buf)
        IN  Finish("ResolvedMinimumStrength",
                   [kind |-> "st", value |-> r.value], r)

Next ==
    \/ Collect
    \/ CallResolvedAccuracy
    \/ CallResolve
    \/ CallResolvedMinimumStrength

Spec == Init /\ [][Next]_vars

----------------------------------------------------------------------------
(* Worlds for the accuracy and minimum-strength resolvers: every stored    *)
(* value, with and without an owner, an entity and a PC, and a first       *)
(* feature of every accuracy / minimum-strength kind and amount.           *)

AccKinds ==
    { WeaponAccBonusFeatureType, WeaponScopeAccBonusFeatureType,
      WeaponMinSTBonusFeatureType }

AllAny == [n |-> AnyCriteria, s |-> AnyCriteria, t |-> AnyCriteria]

AccOwners ==
    {NoOwner} \cup
    { MkOwner("equipment", ent, From(rated), [Features |-> <<1, 2>>, Modifiers |-> <<>>]) :
        ent \in {"none", "present"}, rated \in {-1, 0, 3} }

InitAcc ==
    /\ \E jet \in BOOLEAN, acc \in -1..MaxStored, scope \in {-1, 1},
          minST \in -1..MaxStored :
          weapon = MkWeapon(jet, From(acc), From(scope), From(minST),
                            <<SkillDefaultFor(SkillName)>>)
    /\ owner \in AccOwners
    /\ \E type \in {"pc", "npc"} :
          /\ (owner.entity = "none" => type = "npc")
          /\ entity = MkEntity(type, From(10), (SkillName :> From(12)), <<>>)
    /\ \E t1 \in AccKinds, a1 \in -MaxAmount..MaxAmount :
          feat = [id \in FeatureIds |->
                    IF id = 1
                    THEN MkFeature([goType |-> "WeaponBonus", Type |-> t1],
                                   ThisWeaponWeaponSelectionType, AllAny,
                                   From(a1), FALSE, 0, 0)
                    ELSE MkFeature([goType |-> "WeaponBonus",
                                    Type |-> WeaponMinSTBonusFeatureType],
                                   ThisWeaponWeaponSelectionType, AllAny,
                                   From(1), FALSE, 0, 0)]
    /\ Quiet

SpecAcc == InitAcc /\ [][Next]_vars

----------------------------------------------------------------------------
(* Properties. *)

\* The tooltip lines written for feature id.
LinesOf(id) ==
    Cardinality({i \in DOMAIN tooltip.lines : tooltip.lines[i].src = id})

OnWorklist(id) == \E i \in DOMAIN Worklist(owner) : Worklist(owner)[i].id = id

\* The bonuses the PC's own passes put in the set before the feature loops.
EntityPassSet(allowed, dieCount) ==
    IF HasPC(owner, entity)
    THEN EntityPasses(NewAgg(pre, EmptyBuf), weapon, owner, entity, allowed,
                      From(dieCount)).set
    ELSE {}

\* C1: ResolvedAccuracy returns (0, 0) for a jet weapon and, for a non-jet
\* weapon, with or without an owning PC and whatever is stored, a weapon
\* and a scope accuracy that are both >= 0.
C1_AccuracyNeverNegative ==
    op = "ResolvedAccuracy" =>
        /\ (weapon.Jet => ret.weapon = 0 /\ ret.scope = 0)
        /\ (~weapon.Jet => ret.weapon >= 0 /\ ret.scope >= 0)

\* C2: a bonus instance that one collectWeaponBonuses call reaches twice
\* (put in the set by the PC's named or skill-keyed pass, then met again in
\* the owner's features or modifiers) is in the returned list once and has
\* exactly one tooltip line; no bonus ever has more than one.
C2_ReachedTwiceCountedOnce ==
    op = "collect" =>
        \A id \in FeatureIds :
            /\ LinesOf(id) <= 1
            /\ (id \in EntityPassSet(ret.allowed, ret.dieCount) /\ OnWorklist(id))
                  => (id \in ret.set /\ LinesOf(id) = 1)
            /\ ret.len = Cardinality(ret.set)

C2_Witness ==
    /\ op = "collect"
    /\ \E id \in FeatureIds :
          /\ id \in EntityPassSet(ret.allowed, ret.dieCount)
          /\ OnWorklist(id)
          /\ Selected(weapon, owner, feat[id])
          /\ LinesOf(id) = 1

\* The case of C3: an equipment item with two modifiers, each carrying its
\* own +1 this-weapon bonus of the same allowed type that matches.
TwoModifierBonuses(type) ==
    /\ owner.kind = "equipment"
    /\ Len(owner.Modifiers) = 2
    /\ ModOf(owner, 1) = 1 /\ ModOf(owner, 2) = 2
    /\ \A id \in {1, 2} :
          /\ feat[id].goType = "WeaponBonus"
          /\ feat[id].Type = type
          /\ feat[id].SelectionType = ThisWeaponWeaponSelectionType
          /\ Matches(feat[id].SpecializationCriteria, weapon.Usage)
          /\ feat[id].Amount = From(1)

\* C3: deduplication is by identity, not by value: the two +1 bonuses of
\* two modifiers are both returned, sum to +2 and give two tooltip lines.
C3_EqualValuedBothCounted ==
    \A type \in {WeaponAccBonusFeatureType, WeaponMinSTBonusFeatureType} :
        (op = "collect" /\ type \in ret.allowed /\ TwoModifierBonuses(type)) =>
            /\ ret.set = {1, 2}
            /\ SumAmounts(feat, ret.set, type) = From(2)
            /\ Len(tooltip.lines) = 2
            /\ LinesOf(1) = 1 /\ LinesOf(2) = 1

C3_Witness ==
    /\ op = "collect"
    /\ WeaponAccBonusFeatureType \in ret.allowed
    /\ TwoModifierBonuses(WeaponAccBonusFeatureType)
    /\ feat[1].SpecializationCriteria = feat[2].SpecializationCriteria
    /\ feat[1].NameCriteria = feat[2].NameCriteria
    /\ ret.set = {1, 2}

\* C4: every bonus Level after a call equals its value before the call,
\* for collectWeaponBonuses, ResolvedAccuracy and ResolvedMinimumStrength,
\* and for extractWeaponBonus alone on every feature and allowed set.
C4_LevelRestored ==
    /\ op # "idle" => \A id \in FeatureIds : feat[id].Level = pre[id].Level
    /\ \A id \in FeatureIds, allowed \in AllowedSets, d \in 1..MaxDieCount :
          extractWeaponBonus(NewAgg(feat, EmptyBuf), weapon, owner, id,
                             allowed, From(d)).feat[id].Level = feat[id].Level

C4_Witness ==
    /\ op = "collect"
    /\ \E id \in FeatureIds :
          /\ Applies(pre[id], ret.allowed)
          /\ TransientLevel(feat[id], owner, From(ret.dieCount)) # pre[id].Level
          /\ ~Selected(weapon, owner, feat[id])
          /\ feat[id].Level = pre[id].Level

\* C5 as stated: after collectWeaponBonuses returns every field of every
\* feature, the sub-owner reference included, has the value it had before.
C5_GraphUnchanged == op = "collect" => feat = pre

\* C5 as amended: only the sub-owner reference may differ, and only for a
\* bonus on a modifier, where it is left naming that modifier.
C5_OnlySubOwnerChanges ==
    op = "collect" =>
        \A id \in FeatureIds :
            /\ [feat[id] EXCEPT !.subOwner = pre[id].subOwner] = pre[id]
            /\ feat[id].subOwner # pre[id].subOwner =>
                  /\ HasPC(owner, entity)
                  /\ ModOf(owner, id) # 0
                  /\ feat[id].subOwner = ModOf(owner, id)

C5_Witness ==
    /\ op = "collect"
    /\ \E id \in FeatureIds :
          /\ pre[id].subOwner = 0
          /\ feat[id].subOwner # 0
          /\ Applies(feat[id], ret.allowed)

\* A weapon bonus of an allowed type, with selection type sel, that the
\* direct traversal of the owning item meets.
MetOnItem(id, sel) ==
    /\ op = "collect"
    /\ OnWorklist(id)
    /\ pre[id].goType = "WeaponBonus"
    /\ pre[id].Type \in ret.allowed
    /\ pre[id].SelectionType = sel

\* C17 as stated: a this-weapon bonus of an allowed type met on the owning
\* item is always in the bonus set, whatever its criteria.
C17_ThisWeaponAlwaysAdded ==
    \A id \in FeatureIds :
        MetOnItem(id, ThisWeaponWeaponSelectionType) => id \in ret.set

\* C17 as amended: it is in the set exactly when its specialization
\* criteria match the weapon's usage; its name and tag criteria play no part.
C17_ThisWeaponAddedIfUsageMatches ==
    \A id \in FeatureIds :
        MetOnItem(id, ThisWeaponWeaponSelectionType) =>
            /\ id \in ret.set <=> Matches(pre[id].SpecializationCriteria, weapon.Usage)
            /\ id \notin ret.set => LinesOf(id) = 0

C17_Witness ==
    /\ MetOnItem(1, ThisWeaponWeaponSelectionType)
    /\ ~Matches(pre[1].NameCriteria, WeaponName)
    /\ 1 \in ret.set
    /\ LinesOf(1) = 1

\* C18: a with-name bonus met on the owning item is in the bonus set if and
\* only if its name criteria match the weapon's display string, its
\* specialization criteria match the usage and its tag criteria match the
\* owner's tags; otherwise it is in neither the set nor the tooltip.
C18_WithNameNeedsAllThree ==
    \A id \in FeatureIds :
        MetOnItem(id, WithNameWeaponSelectionType) =>
            LET all == /\ Matches(pre[id].NameCriteria, owner.Description)
                       /\ Matches(pre[id].SpecializationCriteria, weapon.Usage)
                       /\ MatchesList(pre[id].TagsCriteria, owner.Tags)
            IN  /\ id \in ret.set <=> all
                /\ ~all => LinesOf(id) = 0

C18_Witness ==
    /\ MetOnItem(1, WithNameWeaponSelectionType)
    /\ pre[1].NameCriteria = IsCriteria(WeaponName)
    /\ pre[1].SpecializationCriteria = IsCriteria(WeaponUsage)
    /\ pre[1].TagsCriteria = IsCriteria(WeaponTag)
    /\ entity.weaponBonuses = <<>>
    /\ 1 \in ret.set
    /\ LinesOf(1) = 1

\* Whether the diagnostic log of the call holds an entry for selection sel.
Logged(sel) == \E i \in DOMAIN ret.log : ret.log[i] = sel

\* What the direct traversal leaves of a with-required-skill bonus: in the
\* set and the tooltip only if the PC's own pass put it there.
RequiredSkillSkipped(id) ==
    /\ id \in ret.set => id \in EntityPassSet(ret.allowed, ret.dieCount)
    /\ id \notin EntityPassSet(ret.allowed, ret.dieCount) => LinesOf(id) = 0

\* C19 as stated: a with-required-skill bonus met on the owning item is not
\* added and not written to the tooltip by the direct traversal, and the
\* encounter is logged.
C19_RequiredSkillSkippedAndLogged ==
    \A id \in FeatureIds :
        MetOnItem(id, WithRequiredSkillWeaponSelectionType) =>
            /\ RequiredSkillSkipped(id)
            /\ Logged(WithRequiredSkillWeaponSelectionType)

\* C19 as amended: it is skipped in the same way, and nothing is logged
\* for it.
C19_RequiredSkillSkippedSilently ==
    \A id \in FeatureIds :
        MetOnItem(id, WithRequiredSkillWeaponSelectionType) =>
            /\ RequiredSkillSkipped(id)
            /\ ~Logged(WithRequiredSkillWeaponSelectionType)

C19_Witness ==
    /\ MetOnItem(1, WithRequiredSkillWeaponSelectionType)
    /\ Matches(pre[1].NameCriteria, SkillName)
    /\ entity.weaponBonuses = <<>>
    /\ 1 \notin ret.set
    /\ 2 \in ret.set
    /\ ret.log = <<>>

\* The owner and the entity with feature id taken away.
Without(list, id) == SelectSeq(list, LAMBDA x : x # id)

OwnerWithout(o, id) ==
    [o EXCEPT !.Features = Without(@, id),
              !.Modifiers = [m \in DOMAIN @ |->
                               [@[m] EXCEPT !.Features = Without(@, id)]]]

EntityWithout(e, id) == [e EXCEPT !.weaponBonuses = Without(@, id)]

\* C20: a weapon bonus of an unknown selection type is logged and skipped:
\* not in the set, no tooltip line, the call returns normally, its Level is
\* restored, and the set and the tooltip are those of the same call with
\* the bad bonus absent.
C20_UnknownSelectionSkipped ==
    \A id \in FeatureIds :
        MetOnItem(id, UnknownSelectionType) =>
            LET clean == collectWeaponBonuses(weapon, OwnerWithout(owner, id),
                                              EntityWithout(entity, id), pre,
                                              From(ret.dieCount), EmptyBuf,
                                              ret.allowed)
            IN  /\ id \notin ret.set
                /\ LinesOf(id) = 0
                /\ ret.log = <<UnknownSelectionType>>
                /\ ret.kind = "bonuses"
                /\ feat[id].Level = pre[id].Level
                /\ ret.set = clean.set
                /\ tooltip.lines = clean.tip.lines

C20_Witness ==
    /\ MetOnItem(1, UnknownSelectionType)
    /\ Worklist(owner)[1].id = 1
    /\ TransientLevel(pre[1], owner, From(ret.dieCount)) # pre[1].Level
    /\ ret.log = <<UnknownSelectionType>>
    /\ 2 \in ret.set
    /\ LinesOf(2) = 1

\* The minimum-strength bonuses that apply in the worlds of InitAcc, where
\* every bonus is a matching this-weapon bonus on the owner.
RECURSIVE ExpectedMinSTSum(_)
ExpectedMinSTSum(ids) ==
    IF ids = {} \/ ~HasPC(owner, entity) THEN 0
    ELSE LET id == CHOOSE x \in ids : TRUE
         IN  (IF feat[id].Type = WeaponMinSTBonusFeatureType
              THEN feat[id].Amount ELSE 0) + ExpectedMinSTSum(ids \ {id})

\* C7: with a rated strength > 0 on the owner ResolvedMinimumStrength is
\* that rated strength, whatever MinST and the bonuses are, and writes no
\* tooltip; otherwise it is max(0, MinST + the sum of the min-ST bonuses).
C7_RatedStrengthWins ==
    op = "ResolvedMinimumStrength" =>
        IF owner.kind # "none" /\ owner.RatedStrength > 0
        THEN ret.value = owner.RatedStrength /\ tooltip.lines = <<>>
        ELSE ret.value = FxpMaxOf(0, weapon.MinST + ExpectedMinSTSum(FeatureIds))

C7_Witness ==
    /\ op = "ResolvedMinimumStrength"
    /\ owner.RatedStrength > 0
    /\ HasPC(owner, entity)
    /\ ~tooltip.isNil
    /\ weapon.MinST + ExpectedMinSTSum(FeatureIds) > owner.RatedStrength
    /\ ret.value = owner.RatedStrength

----------------------------------------------------------------------------
(* Worlds for the skill level: every list of up to two defaults (a known   *)
(* skill, an unknown skill, an attribute), with and without a strength     *)
(* shortfall, a fencing parry and skill bonuses.                           *)

DefaultChoices ==
    { SkillDefaultFor(SkillName), SkillDefaultFor("Unknown"),
      [Type |-> "dx", Name |-> "", Specialization |-> "", Modifier |-> From(-5)] }

DefaultLists ==
    {<<>>} \cup {<<d>> : d \in DefaultChoices}
           \cup {<<d1, d2>> : d1 \in DefaultChoices, d2 \in DefaultChoices}

\* Feature 1 as a skill bonus: for this weapon, for this weapon with a
\* specialization that does not match, or for weapons with this name.
SkillBonusChoices ==
    { [sel |-> ThisWeaponWeaponSelectionType, crit |-> AllAny],
      [sel |-> ThisWeaponWeaponSelectionType,
       crit |-> [n |-> AnyCriteria, s |-> IsCriteria("Thrust"), t |-> AnyCriteria]],
      [sel |-> WithNameWeaponSelectionType, crit |-> AllAny] }

InitSkill ==
    /\ \E minST \in {0, 12}, shape \in {<<"melee_weapon", <<"0">>>>,
                                        <<"melee_weapon", <<"0", "F">>>>,
                                        <<"ranged_weapon", <<"0", "F">>>>},
          defs \in DefaultLists :
          weapon = [MkWeapon(FALSE, 0, 0, From(minST), defs)
                      EXCEPT !.Type = shape[1], !.Parry = shape[2]]
    /\ owner = MkOwner("equipment", "present", 0,
                       [Features |-> <<1, 2>>, Modifiers |-> <<>>])
    /\ \E type \in {"pc", "npc"}, st \in {10, 13}, level \in {1, 14} :
          /\ (type = "npc" => st = 10 /\ level = 14)
          /\ entity = [MkEntity(type, From(st), (SkillName :> From(level)), <<2>>)
                         EXCEPT !.skillBonuses = <<1>>,
                                !.EncumbrancePenalty = From(-2)]
    /\ \E sb \in SkillBonusChoices, a1 \in -MaxAmount..MaxAmount, a2 \in {0, 1} :
          feat = [id \in FeatureIds |->
                    IF id = 1
                    THEN MkFeature([goType |-> "SkillBonus",
                                    Type |-> SkillBonusFeatureType],
                                   sb.sel, sb.crit, From(a1), FALSE, 0, 0)
                    ELSE MkFeature([goType |-> "WeaponBonus",
                                    Type |-> WeaponMinSTBonusFeatureType],
                                   ThisWeaponWeaponSelectionType, AllAny,
                                   From(a2), FALSE, 0, 0)]
    /\ Quiet

CallSkillLevel ==
    \E buf \in Buffers :
        LET r == SkillLevel(weapon, owner, entity, feat, buf)
        IN  Finish("SkillLevel", [kind |-> "level", value |-> r.value], r)

NextSkill == CallSkillLevel

SpecSkill == InitSkill /\ [][NextSkill]_vars

\* The defaults of the weapon that the entity can resolve.
Applicable ==
    {i \in DOMAIN weapon.Defaults : SkillLevelFast(entity, weapon.Defaults[i]) # FxpMin}

\* The adjustment SkillLevel adds to every default's level.
Adjustment ==
    skillLevelBaseAdjustment(weapon, owner, entity, pre, NilBuf).value
    + skillLevelPostAdjustment(weapon, entity, NilBuf).value

SetMax(S) == CHOOSE x \in S : \A y \in S : y <= x

\* C8: SkillLevel is max(0, the greatest adjusted level over the applicable
\* defaults); it is 0 when no default applies, when the list is empty and
\* when there is no PC; it is never negative.
C8_SkillLevelBestOf ==
    op = "SkillLevel" =>
        /\ ret.value >= 0
        /\ ret.value =
             IF ~HasPC(owner, entity) \/ Applicable = {} THEN 0
             ELSE FxpMaxOf(0, SetMax({SkillLevelFast(entity, weapon.Defaults[i])
                                        + Adjustment : i \in Applicable}))

C8_Witness ==
    /\ op = "SkillLevel"
    /\ HasPC(owner, entity)
    /\ Len(weapon.Defaults) = 2
    /\ Applicable = {2}
    /\ ret.value > 0

\* The skill bonuses that apply in the worlds of InitSkill.
OtherSkillBonuses ==
    IF /\ feat[1].goType = "SkillBonus"
       /\ Matches(feat[1].SpecializationCriteria, weapon.Usage)
    THEN feat[1].Amount ELSE 0

\* The fencing encumbrance penalty in the worlds of InitSkill.
FencingPenalty ==
    IF weapon.Type = "melee_weapon" /\ Contains(weapon.Parry, "F")
    THEN entity.EncumbrancePenalty ELSE 0

\* The resolved minimum strength in the worlds of InitSkill.
MinimumStrengthHere == FxpMaxOf(0, weapon.MinST + feat[2].Amount)

BestDefaultLevel ==
    SetMax({SkillLevelFast(entity, weapon.Defaults[i]) : i \in Applicable})

\* C9: a resolved minimum strength d > 0 above the entity's strength takes
\* exactly d off the skill level, and none otherwise; strength 10, minimum
\* strength 12, best default 14 and no other bonus give 12.
C9_ShortfallPenalty ==
    (op = "SkillLevel" /\ HasPC(owner, entity) /\ Applicable # {}) =>
        LET d == MinimumStrengthHere - entity.StrikingStrength
        IN  /\ ret.value = FxpMaxOf(0, BestDefaultLevel
                                       - (IF d > 0 THEN d ELSE 0)
                                       + OtherSkillBonuses + FencingPenalty)
            /\ ( /\ entity.StrikingStrength = From(10)
                 /\ MinimumStrengthHere = From(12)
                 /\ BestDefaultLevel = From(14)
                 /\ OtherSkillBonuses = 0 /\ FencingPenalty = 0 )
                  => ret.value = From(12)

C9_Witness ==
    /\ op = "SkillLevel"
    /\ HasPC(owner, entity)
    /\ entity.StrikingStrength = From(10)
    /\ MinimumStrengthHere = From(12)
    /\ Applicable # {}
    /\ BestDefaultLevel = From(14)
    /\ OtherSkillBonuses = 0 /\ FencingPenalty = 0
    /\ ret.value = From(12)

----------------------------------------------------------------------------
(* ResolvedRange, one loop pass at a time. *)

\* Range strings are all texts of up to MaxRangeLen characters.
MaxRangeLen == 4

RangeAlphabet == {"x", " ", "3", ".", "/"}

RECURSIVE TextsOfLen(_)
TextsOfLen(n) ==
    IF n = 0 THEN {<<>>}
    ELSE {Append(t, ch) : t \in TextsOfLen(n - 1), ch \in RangeAlphabet}

RangeTexts ==
    UNION {TextsOfLen(n) : n \in 0..MaxRangeLen}
    \cup { <<"1", "0", "/", "x", "3">>, <<"x", "2", " ", "x", "3">> }

\* Who holds the weapon: nobody, an item with a rated strength, or a PC or
\* another entity with or without throwing strength.
RangeHolders ==
    { [o |-> NoOwner, type |-> "npc", throwing |-> 0],
      [o |-> MkOwner("equipment", "present", From(2),
                     [Features |-> <<>>, Modifiers |-> <<>>]),
       type |-> "pc", throwing |-> From(8)],
      [o |-> MkOwner("equipment", "present", 0,
                     [Features |-> <<>>, Modifiers |-> <<>>]),
       type |-> "pc", throwing |-> From(8)],
      [o |-> MkOwner("equipment", "present", 0,
                     [Features |-> <<>>, Modifiers |-> <<>>]),
       type |-> "pc", throwing |-> 0],
      [o |-> MkOwner("equipment", "present", 0,
                     [Features |-> <<>>, Modifiers |-> <<>>]),
       type |-> "npc", throwing |-> From(8)] }

InitRange ==
    /\ \E text \in RangeTexts :
          weapon = [MkWeapon(FALSE, 0, 0, 0, <<>>)
                      EXCEPT !.Type = "ranged_weapon", !.Range = text]
    /\ \E h \in RangeHolders :
          /\ owner = h.o
          /\ entity = [MkEntity(h.type, From(10), <<>>, <<>>)
                         EXCEPT !.ThrowingStrength = h.throwing]
    /\ feat = [id \in FeatureIds |->
                 MkFeature([goType |-> "WeaponBonus",
                            Type |-> WeaponMinSTBonusFeatureType],
                           ThisWeaponWeaponSelectionType, AllAny, 0, FALSE, 0, 0)]
    /\ op = "idle" /\ ret = IdleRet /\ tooltip = NilBuf /\ pre = feat
    /\ procs = <<>> /\ mutex = NoMutex
    /\ hasher = NoHasher /\ prereq = NoPrereq /\ val = NoValue /\ store = NoStore
    /\ rng = [pc |-> "ready", round |-> 1]

RangeFrame ==
    UNCHANGED <<weapon, owner, entity, feat, tooltip, pre, procs, mutex, hasher, prereq, val, store>>

\* Entry: no strength returns the stored text; else the loop starts with
\* savedRange empty and calcRange the stored text.
RangeEnter ==
    /\ rng.pc = "ready"
    /\ LET st == EffectiveStrength(owner, entity)
       IN  IF st = 0
           THEN /\ rng' = [pc |-> "done", round |-> rng.round, st |-> st,
                           passes |-> 0]
                /\ op' = "ResolvedRange"
                /\ ret' = [kind |-> "text", value |-> weapon.Range]
           ELSE /\ rng' = [pc |-> "loop", round |-> rng.round, st |-> st,
                           savedRange |-> <<>>, calcRange |-> weapon.Range,
                           passes |-> 0]
                /\ UNCHANGED <<op, ret>>
    /\ RangeFrame

\* One pass of: for calcRange != savedRange { ... }
RangePass ==
    /\ rng.pc = "loop"
    /\ ~LoopDone(rng.savedRange, rng.calcRange)
    /\ rng' = [rng EXCEPT !.savedRange = rng.calcRange,
                          !.calcRange = resolveRange(rng.calcRange, rng.st),
                          !.passes = @ + 1]
    /\ UNCHANGED <<op, ret>>
    /\ RangeFrame

RangeReturn ==
    /\ rng.pc = "loop"
    /\ LoopDone(rng.savedRange, rng.calcRange)
    /\ rng' = [pc |-> "done", round |-> rng.round, st |-> rng.st,
               passes |-> rng.passes]
    /\ op' = "ResolvedRange"
    /\ ret' = [kind |-> "text", value |-> rng.calcRange]
    /\ RangeFrame

\* The caller stores the resolved text back into the weapon's Range field,
\* ready to resolve it a second time.
StoreResolvedRange ==
    /\ rng.pc = "done"
    /\ rng.round = 1
    /\ weapon' = [weapon EXCEPT !.Range = ret.value]
    /\ rng' = [pc |-> "ready", round |-> 2]
    /\ UNCHANGED <<owner, entity, feat, op, ret, tooltip, pre, procs, mutex,
                   hasher, prereq, val, store>>

NextRange == RangeEnter \/ RangePass \/ RangeReturn \/ StoreResolvedRange

SpecRange == InitRange /\ [][NextRange]_vars

CountX(str) == Cardinality({i \in DOMAIN str : str[i] = "x"})

\* C10: ResolvedRange terminates: a pass that changes the text removes one
\* 'x', so the passes made plus the 'x' left never exceed the 'x' of the
\* stored text (plus the one last pass that changes nothing), and the loop
\* makes at most count('x') + 1 passes.
C10_RangeLoopBounded ==
    /\ rng.pc = "loop" =>
          rng.passes + CountX(rng.calcRange)
              <= CountX(weapon.Range)
                 + (IF rng.passes > 0 /\ rng.calcRange = rng.savedRange THEN 1 ELSE 0)
    /\ rng.pc \in {"loop", "done"} => rng.passes <= CountX(weapon.Range) + 1

C10_Witness ==
    /\ rng.pc = "done"
    /\ CountX(weapon.Range) = 2
    /\ rng.passes = 3
    /\ CountX(ret.value) = 0

\* A number as the scan of resolveRange accepts it: digits with at most one
\* decimal point.
IsNumberText(t) ==
    /\ t # <<>>
    /\ \A i \in DOMAIN t : IsDigit(t[i]) \/ t[i] = "."
    /\ Cardinality({i \in DOMAIN t : t[i] = "."}) <= 1

\* An 'x' at position i that is followed, optionally after one space, by a
\* digit / by a digit or a decimal point.
TokenAt(str, i) ==
    /\ str[i] = "x"
    /\ \/ i + 1 <= Len(str) /\ IsDigit(str[i + 1])
       \/ i + 2 <= Len(str) /\ str[i + 1] = " " /\ IsDigit(str[i + 2])

NumberTokenAt(str, i) ==
    /\ str[i] = "x"
    /\ \/ i + 1 <= Len(str) /\ (IsDigit(str[i + 1]) \/ str[i + 1] = ".")
       \/ /\ i + 2 <= Len(str) /\ str[i + 1] = " "
          /\ (IsDigit(str[i + 2]) \/ str[i + 2] = ".")

HasToken(str) == \E i \in DOMAIN str : TokenAt(str, i)

HasNumberToken(str) == \E i \in DOMAIN str : NumberTokenAt(str, i)

\* C11: ResolvedRange is idempotent: with its output stored back into Range,
\* a second call with the same strength returns that text unchanged; and a
\* text without a multiplier token ('x', optionally one space, then a number
\* of digits and a decimal point) is returned unchanged.
C11_ResolvedRangeIdempotent ==
    /\ rng.pc = "done" /\ rng.round = 2 => ret.value = weapon.Range
    /\ rng.pc = "done" /\ ~HasNumberToken(weapon.Range) => ret.value = weapon.Range

C11_Witness ==
    /\ rng.pc = "done"
    /\ rng.round = 2
    /\ rng.st = From(8)
    /\ rng.passes = 1
    /\ ret.value = <<"1", "0", "/", "2", "4">>

\* The strength the range is multiplied by, read off the owner and entity.
ExpectedStrength ==
    IF owner.kind # "none" /\ owner.RatedStrength # 0 THEN owner.RatedStrength
    ELSE IF owner.kind # "none" /\ owner.entity = "present" /\ entity.Type = "pc"
         THEN entity.ThrowingStrength
         ELSE 0

\* The multiplier token at the first 'x' of a text, when that 'x' is
\* followed, optionally after one space, by a number: the position of the
\* 'x' and the first and last position of the number (the longest run of
\* digits with at most one decimal point, holding a digit).
FirstTokens(str) ==
    { s \in [x : DOMAIN str, first : DOMAIN str, last : DOMAIN str] :
        /\ str[s.x] = "x"
        /\ \A i \in 1..(s.x - 1) : str[i] # "x"
        /\ \/ s.first = s.x + 1
           \/ s.first = s.x + 2 /\ str[s.x + 1] = " "
        /\ s.first <= s.last
        /\ IsNumberText(SubSeq(str, s.first, s.last))
        /\ \E i \in s.first..s.last : IsDigit(str[i])
        /\ s.last < Len(str) => ~IsNumberText(SubSeq(str, s.first, s.last + 1)) }

\* trunc(N * st) as text.
ProductText(number, st) == FxpString(Trunc(Mul(FromString(number), st)))

\* C12: a pass replaces the token at the first 'x' by trunc(N * st) and keeps
\* the text before the 'x' and after the number; st is the owner's rated
\* strength if non-zero, else the PC's throwing strength; with no strength
\* the stored Range is returned; "10/x3" with strength 8 gives "10/24".
C12_MultiplierSubstitution ==
    /\ rng.pc \in {"loop", "done"} => rng.st = ExpectedStrength
    /\ rng.pc = "done" /\ ExpectedStrength = 0 => ret.value = weapon.Range
    /\ rng.pc = "loop" /\ rng.passes > 0 =>
          \A s \in FirstTokens(rng.savedRange) :
              rng.calcRange =
                  SubSeq(rng.savedRange, 1, s.x - 1)
                  \o ProductText(SubSeq(rng.savedRange, s.first, s.last), rng.st)
                  \o SubSeq(rng.savedRange, s.last + 1, Len(rng.savedRange))
    /\ ( /\ rng.pc = "done" /\ rng.round = 1
         /\ weapon.Range = <<"1", "0", "/", "x", "3">>
         /\ ExpectedStrength = From(8) )
       => ret.value = <<"1", "0", "/", "2", "4">>

C12_Witness ==
    /\ rng.pc = "done"
    /\ rng.round = 1
    /\ weapon.Range = <<"1", "0", "/", "x", "3">>
    /\ owner.kind # "none" /\ owner.RatedStrength = 0
    /\ entity.ThrowingStrength = From(8)
    /\ ret.value = <<"1", "0", "/", "2", "4">>

\* C13: with a non-zero strength, the text ResolvedRange returns holds no
\* multiplier token: no 'x' followed, optionally after one space, by digits.
C13_NoTokenLeft ==
    rng.pc = "done" /\ rng.st # 0 => ~HasToken(ret.value)

----------------------------------------------------------------------------
(* Two resolutions running at once over the same owner graph, each a       *)
(* collectWeaponBonuses call of the damage resolver with its own die       *)
(* count, interleaved at the statements of extractWeaponBonus; callers     *)
(* either serialize the calls with one per-entity mutex or do not.         *)

Procs == {1, 2}

InitConc ==
    /\ \E kind \in {"trait", "equipment"}, active \in BOOLEAN,
          k1 \in {k \in FeatureKinds : k.goType = "WeaponBonus"},
          s1 \in {ThisWeaponWeaponSelectionType, WithNameWeaponSelectionType,
                  UnknownSelectionType} :
          /\ owner = MkOwner(kind, "present", 0,
                             [Features |-> <<1>>,
                              Modifiers |-> <<MkModifier(<<2>>, From(3))>>])
          /\ entity = MkEntity("pc", From(10), (SkillName :> From(12)),
                               IF active THEN <<1, 2>> ELSE <<>>)
          /\ feat = [id \in FeatureIds |->
                       IF id = 1
                       THEN MkFeature(k1, s1, AllAny, From(1), TRUE, From(4), 0)
                       ELSE MkFeature([goType |-> "WeaponBonus",
                                       Type |-> WeaponBonusFeatureType],
                                      ThisWeaponWeaponSelectionType, AllAny,
                                      From(1), TRUE, From(4), 1)]
    /\ weapon = MkWeapon(FALSE, From(1), 0, From(8), <<SkillDefaultFor(SkillName)>>)
    /\ hasher = NoHasher /\ prereq = NoPrereq /\ val = NoValue /\ store = NoStore
    /\ \E used \in BOOLEAN :
          /\ mutex = [used |-> used, holder |-> 0]
          /\ procs = [p \in Procs |->
                        [pc |-> IF used THEN "lock" ELSE "call", dieCount |-> p,
                         allowed |-> {WeaponBonusFeatureType, WeaponAccBonusFeatureType,
                                      WeaponMinSTBonusFeatureType},
                         i |-> 0, level |-> 0, set |-> {}, tip |-> EmptyBuf,
                         log |-> <<>>]]
    /\ op = "idle" /\ ret = IdleRet /\ tooltip = NilBuf /\ pre = feat
    /\ rng = [pc |-> "off"]

ConcFrame ==
    UNCHANGED <<weapon, owner, entity, op, ret, tooltip, pre, rng, hasher, prereq, val, store>>

\* The aggregation state of goroutine p: the shared heap, its own locals.
AggOf(p) == [feat |-> feat, set |-> procs[p].set, tip |-> procs[p].tip,
             log |-> procs[p].log]

Item(p) == Worklist(owner)[procs[p].i]

\* The caller takes the entity's mutex before resolving.
Lock(p) ==
    /\ procs[p].pc = "lock"
    /\ mutex.used /\ mutex.holder = 0
    /\ mutex' = [mutex EXCEPT !.holder = p]
    /\ procs' = [procs EXCEPT ![p].pc = "call"]
    /\ UNCHANGED feat
    /\ ConcFrame

\* collectWeaponBonuses up to the feature loops.
Enter(p) ==
    /\ procs[p].pc = "call"
    /\ LET r == IF HasPC(owner, entity)
                THEN EntityPasses(NewAgg(feat, EmptyBuf), weapon, owner, entity,
                                  procs[p].allowed, From(procs[p].dieCount))
                ELSE NewAgg(feat, EmptyBuf)
       IN  /\ procs' = [procs EXCEPT
                          ![p].pc = IF HasPC(owner, entity) THEN "visit" ELSE "return",
                          ![p].i = 1, ![p].set = r.set, ![p].tip = r.tip,
                          ![p].log = r.log]
           /\ feat' = r.feat
    /\ UNCHANGED mutex
    /\ ConcFrame

\* The head of a loop iteration: SetSubOwner for a bonus on a modifier, the
\* allowed-type test, and level := bonus.LeveledAmount.Level.
Visit(p) ==
    /\ procs[p].pc = "visit"
    /\ procs[p].i <= Len(Worklist(owner))
    /\ LET item == Item(p)
           st1  == IF item.mod # 0 /\ IsBonus(feat[item.id])
                   THEN SetSubOwner(AggOf(p), item.id, item.mod) ELSE AggOf(p)
       IN  /\ feat' = st1.feat
           /\ procs' = IF Applies(feat[item.id], procs[p].allowed)
                       THEN [procs EXCEPT ![p].pc = "write",
                                          ![p].level = SaveLevel(st1.feat, item.id)]
                       ELSE [procs EXCEPT ![p].i = @ + 1]
    /\ UNCHANGED mutex
    /\ ConcFrame

\* bonus.LeveledAmount.Level = dieCount, or the derived level.
Write(p) ==
    /\ procs[p].pc = "write"
    /\ feat' = WriteLevel(AggOf(p), weapon, owner, Item(p).id,
                          From(procs[p].dieCount)).feat
    /\ procs' = [procs EXCEPT ![p].pc = "select"]
    /\ UNCHANGED mutex
    /\ ConcFrame

\* The selection switch, reading the bonus as it is now.
Select(p) ==
    /\ procs[p].pc = "select"
    /\ LET r == SelectStep(AggOf(p), weapon, owner, Item(p).id)
       IN  procs' = [procs EXCEPT ![p].pc = "restore", ![p].set = r.set,
                                  ![p].tip = r.tip, ![p].log = r.log]
    /\ UNCHANGED <<feat, mutex>>
    /\ ConcFrame

\* bonus.LeveledAmount.Level = level
Restore(p) ==
    /\ procs[p].pc = "restore"
    /\ feat' = RestoreLevel(AggOf(p), Item(p).id, procs[p].level).feat
    /\ procs' = [procs EXCEPT ![p].pc = "visit", ![p].i = @ + 1]
    /\ UNCHANGED mutex
    /\ ConcFrame

\* The loops are over: the call returns.
Return(p) ==
    /\ \/ procs[p].pc = "return"
       \/ procs[p].pc = "visit" /\ procs[p].i > Len(Worklist(owner))
    /\ procs' = [procs EXCEPT ![p].pc = IF mutex.used THEN "unlock" ELSE "done"]
    /\ UNCHANGED <<feat, mutex>>
    /\ ConcFrame

Unlock(p) ==
    /\ procs[p].pc = "unlock"
    /\ mutex.holder = p
    /\ mutex' = [mutex EXCEPT !.holder = 0]
    /\ procs' = [procs EXCEPT ![p].pc = "done"]
    /\ UNCHANGED feat
    /\ ConcFrame

NextConc ==
    \E p \in Procs :
        \/ Lock(p)
        \/ Enter(p)
        \/ Visit(p)
        \/ Write(p)
        \/ Select(p)
        \/ Restore(p)
        \/ Return(p)
        \/ Unlock(p)

SpecConc == InitConc /\ [][NextConc]_vars

AllReturned == \A p \in Procs : procs[p].pc = "done"

\* The level goroutine p writes to bonus id for the duration of its call.
OwnTransient(p, id) ==
    IF pre[id].Type = WeaponBonusFeatureType THEN From(procs[p].dieCount)
    ELSE DerivedLevel([pre[id] EXCEPT !.subOwner = ModOf(owner, id)], owner)

\* C6: with the two calls serialized by one per-entity mutex every tooltip
\* line of a call shows that call's own transient Level, and once both have
\* returned every bonus Level is its original value.  (Without the mutex
\* the witness below is reached: both calls have returned and a Level is
\* left at a transient value.)
C6_SerializedCallsRestore ==
    mutex.used =>
        /\ \A p \in Procs : \A n \in DOMAIN procs[p].tip.lines :
              procs[p].tip.lines[n].level = OwnTransient(p, procs[p].tip.lines[n].src)
        /\ AllReturned => \A id \in FeatureIds : feat[id].Level = pre[id].Level

\* Unserialized: both calls have returned and some bonus Level is not its
\* original value but the transient one of a call.
C6_Witness ==
    /\ ~mutex.used
    /\ AllReturned
    /\ \E id \in FeatureIds :
          /\ feat[id].Level # pre[id].Level
          /\ \E p \in Procs : feat[id].Level = OwnTransient(p, id)

\* Serialized: both calls have returned after writing transient levels.
C6_SerializedWitness ==
    /\ mutex.used
    /\ AllReturned
    /\ \A p \in Procs : Len(procs[p].tip.lines) = 2
    /\ \A id \in FeatureIds : feat[id].Level = pre[id].Level

----------------------------------------------------------------------------
(* Content hash.  Weapon.HashCode writes the weapon's fields into a        *)
(* fnv.New32 digest (FNV-1, 32 bit): strings as their raw bytes, numbers   *)
(* and flags little-endian.  The 32-bit sum is held as two 16-bit halves.  *)

Upper == <<"A", "B", "C", "D", "E", "F", "G", "H", "I", "J", "K", "L", "M",
           "N", "O", "P", "Q", "R", "S", "T", "U", "V", "W", "X", "Y", "Z">>

Lower == <<"a", "b", "c", "d", "e", "f", "g", "h", "i", "j", "k", "l", "m",
           "n", "o", "p", "q", "r", "s", "t", "u", "v", "w", "x", "y", "z">>

Position(seq, ch) == CHOOSE i \in DOMAIN seq : seq[i] = ch

\* The byte of a character.
ByteOfChar(ch) ==
    IF IsDigit(ch) THEN 47 + Position(Digits, ch)
    ELSE IF \E i \in DOMAIN Upper : Upper[i] = ch THEN 64 + Position(Upper, ch)
    ELSE IF \E i \in DOMAIN Lower : Lower[i] = ch THEN 96 + Position(Lower, ch)
    ELSE CASE ch = " " -> 32  [] ch = "+" -> 43  [] ch = "-" -> 45
           [] ch = "." -> 46  [] ch = "/" -> 47

\* []byte(s)
Bytes(text) == [i \in DOMAIN text |-> ByteOfChar(text[i])]

\* binary.Write(h, binary.LittleEndian, v) of an fxp.Int (int64): eight
\* bytes, two's complement, the upper four being the sign extension.
ByteAt(v, k) ==
    LET shift == IF k = 0 THEN 1 ELSE IF k = 1 THEN 256
                 ELSE IF k = 2 THEN 65536 ELSE 16777216
    IN  IF v >= 0 THEN (v \div shift) % 256
        ELSE 255 - (((-v - 1) \div shift) % 256)

EncodeInt64(v) ==
    [i \in 1..8 |-> IF i <= 4 THEN ByteAt(v, i - 1) ELSE IF v < 0 THEN 255 ELSE 0]

\* binary.Write of a bool: one byte.
EncodeBool(b) == <<IF b THEN 1 ELSE 0>>

\* Bitwise exclusive or of two naturals.
RECURSIVE Xor(_, _)
Xor(a, b) ==
    IF a = 0 THEN b
    ELSE IF b = 0 THEN a
    ELSE 2 * Xor(a \div 2, b \div 2) + ((a + b) % 2)

\* fnv offset32 = 2166136261 = 0x811C9DC5.
FnvOffset32 == [hi |-> 33052, lo |-> 40389]

\* One byte into the digest: sum *= prime32 (16777619 = 2^24 + 403) modulo
\* 2^32, then sum ^= byte.
WriteByte(sum, b) ==
    LET low == sum.lo * 403
    IN  [hi |-> (sum.hi * 403 + (low \div 65536) + (sum.lo % 256) * 256) % 65536,
         lo |-> Xor(low % 65536, b)]

\* The bytes at positions from..to written into the digest, in order: the
\* first half, then the second half into the sum the first half left.
RECURSIVE HashRange(_, _, _, _)
HashRange(sum, bytes, from, to) ==
    IF from > to THEN sum
    ELSE IF from = to THEN WriteByte(sum, bytes[from])
    ELSE CHOOSE r \in { HashRange(left, bytes, (from + to) \div 2 + 1, to) :
                          left \in {HashRange(sum, bytes, from, (from + to) \div 2)} } :
            TRUE

\* hash.Hash.Write
HashWrite(sum, bytes) == HashRange(sum, bytes, 1, Len(bytes))

\* byte(w.Type)
TypeByte(type) == IF type = "melee_weapon" THEN 0 ELSE 1

\* []byte(w.String())
DescriptionBytes(w, o) == IF o.kind = "none" THEN <<>> ELSE Bytes(o.Description)

\* The bytes HashCode writes, in its order, given the resolved skill level.
HashedBytes(w, o, level) ==
    Bytes(w.ID) \o <<TypeByte(w.Type)>> \o DescriptionBytes(w, o)
    \o Bytes(w.UsageNotes) \o Bytes(w.Usage) \o EncodeInt64(level)
    \o Bytes(w.Parry) \o Bytes(w.Block) \o Bytes(w.ResolvedDamage)
    \o Bytes(w.Reach) \o Bytes(w.Range) \o Bytes(w.RateOfFire)
    \o Bytes(w.Shots) \o Bytes(w.Bulk) \o Bytes(w.Recoil)
    \o EncodeBool(w.Jet) \o EncodeInt64(w.WeaponAcc) \o EncodeInt64(w.ScopeAcc)
    \o EncodeInt64(w.MinST) \o EncodeBool(w.Bipod) \o EncodeBool(w.Mounted)
    \o EncodeBool(w.MusketRest) \o EncodeBool(w.TwoHanded)
    \o EncodeBool(w.UnreadyAfterAttack)

\* The rest of HashCode once the skill level (skill: the result of
\* SkillLevel(nil)) is known.
HashCodeWith(w, o, skill) ==
    [panic |-> FALSE,
     sum   |-> HashWrite(FnvOffset32, HashedBytes(w, o, skill.value)),
     feat  |-> skill.feat]

\* Weapon.HashCode on a receiver that is nil (the first field read, w.ID,
\* dereferences the nil pointer: a panic) or the weapon w: [panic, sum, feat]
HashCode(isNil, w, o, e, heap) ==
    IF isNil THEN [panic |-> TRUE, sum |-> FnvOffset32, feat |-> heap]
    ELSE HashCodeWith(w, o, SkillLevel(w, o, e, heap, NilBuf))

----------------------------------------------------------------------------
(* Attribute prerequisites (attribute_prereq.go).  A leaf is               *)
(* [Has, CombinedWith, QualifierCriteria, Which]; attribute ids and names  *)
(* are texts; the entity's attributes are entity.Attributes.               *)

\* NumericCriteria.Matches
NumericMatches(criteria, value) ==
    CASE criteria.Compare = "at_least" -> value >= criteria.Qualifier
      [] criteria.Compare = "at_most"  -> value <= criteria.Qualifier
      [] criteria.Compare = "is"       -> value = criteria.Qualifier
      [] OTHER -> TRUE

\* NumericCriteria.String: the comparison and the number it compares with.
NumericString(criteria) == <<criteria.Compare, criteria.Qualifier>>

\* NumericCriteria.Hash: the comparison, then the qualifier.
NumericHashBytes(criteria) ==
    << CASE criteria.Compare = "at_least" -> 3
         [] criteria.Compare = "at_most"  -> 4
         [] criteria.Compare = "is"       -> 1
         [] OTHER -> 0 >>
    \o EncodeInt64(criteria.Qualifier)

\* Entity.ResolveAttributeCurrent / Entity.ResolveAttributeName
ResolveAttributeCurrent(e, which) == e.Attributes[which].current

ResolveAttributeName(e, which) == e.Attributes[which].name

\* HasText
HasText(has) == IF has THEN "Has" ELSE "Does not have"

\* The value the leaf tests: the attribute, plus the combined one if any.
PrereqValue(p, e) ==
    ResolveAttributeCurrent(e, p.Which)
    + (IF p.CombinedWith # <<>> THEN ResolveAttributeCurrent(e, p.CombinedWith) ELSE 0)

\* Mutant: the Has flag is not consulted.
PrereqVerdict_IgnoresHas(p, e) ==
    NumericMatches(p.QualifierCriteria, PrereqValue(p, e))

\* The verdict of the leaf.
PrereqVerdict(p, e) ==
    IF p.Has THEN NumericMatches(p.QualifierCriteria, PrereqValue(p, e))
    ELSE ~NumericMatches(p.QualifierCriteria, PrereqValue(p, e))

\* The explanation of a failing leaf, as written to the tooltip.
Explanation(p, e, prefix) ==
    [prefix   |-> prefix,
     has      |-> HasText(p.Has),
     names    |-> IF p.CombinedWith # <<>>
                  THEN <<ResolveAttributeName(e, p.Which),
                         ResolveAttributeName(e, p.CombinedWith)>>
                  ELSE <<ResolveAttributeName(e, p.Which)>>,
     criteria |-> NumericString(p.QualifierCriteria)]

\* Mutant: only the first failure is explained.
WritesExplanation_OnlyFirst(satisfied, buf) ==
    ~satisfied /\ ~buf.isNil /\ buf.lines = <<>>

\* if !satisfied && tooltip != nil
WritesExplanation(satisfied, buf) == ~satisfied /\ ~buf.isNil

\* AttributePrereq.Satisfied: [satisfied, tip]
Satisfied(p, e, buf, prefix) ==
    [satisfied |-> PrereqVerdict(p, e),
     tip |-> IF WritesExplanation(PrereqVerdict(p, e), buf)
             THEN [buf EXCEPT !.lines = Append(@, Explanation(p, e, prefix))]
             ELSE buf]

\* The bytes AttributePrereq.Hash writes: Type, Has, CombinedWith, the
\* criteria, Which.
PrereqHashBytes(p) ==
    <<0>> \o EncodeBool(p.Has) \o Bytes(p.CombinedWith)
    \o NumericHashBytes(p.QualifierCriteria) \o Bytes(p.Which)

\* AttributePrereq.Hash on a nil receiver or on the leaf p, into digest
\* [sum, written].
PrereqHash(isNil, p, digest) ==
    IF isNil THEN digest
    ELSE [sum     |-> HashWrite(digest.sum, PrereqHashBytes(p)),
          written |-> digest.written + Len(PrereqHashBytes(p))]

----------------------------------------------------------------------------
(* Hashing worlds: a PC's axe whose parry and block texts and whose skill   *)
(* are edited between HashCode calls, and a digest that prerequisite       *)
(* leaves (or a nil one) are hashed into.                                  *)

\* Leaves hashed into one digest: at most this many non-nil Hash calls.
MaxHashCalls == 1

StrengthId  == <<"s", "t">>
DexterityId == <<"d", "x">>

MkPrereq(has, combined, compare, qualifier) ==
    [Has |-> has, CombinedWith |-> combined,
     QualifierCriteria |-> [Compare |-> compare, Qualifier |-> qualifier],
     Which |-> StrengthId]

\* The hashed weapon: the fields of MkWeapon, with the texts HashCode
\* writes as texts.
MkHashWeapon(parry, block, minST) ==
    [ID |-> <<"w", "1">>, Usage |-> <<"S", "w", "u", "n", "g">>,
     UsageNotes |-> <<>>, Parry |-> parry, Block |-> block,
     ResolvedDamage |-> <<"2", "d", "+", "1", " ", "c", "u", "t">>,
     Reach |-> <<"1">>, Range |-> <<>>, RateOfFire |-> <<>>, Shots |-> <<>>,
     Bulk |-> <<>>, Recoil |-> <<>>, Bipod |-> FALSE, Mounted |-> FALSE,
     MusketRest |-> FALSE, TwoHanded |-> TRUE, UnreadyAfterAttack |-> FALSE]
    @@ MkWeapon(FALSE, From(1), 0, minST, <<SkillDefaultFor(SkillName)>>)

ParryTexts == {<<"0">>, <<"0", "F">>}
BlockTexts == {<<>>, <<"F">>}
SkillValues == {From(12), From(13)}

NewDigest == [sum |-> FnvOffset32, written |-> 0]

InitHash ==
    /\ \E parry \in ParryTexts, block \in BlockTexts :
          weapon = MkHashWeapon(parry, block, From(8))
    /\ owner = [MkOwner("equipment", "present", 0,
                        [Features |-> <<>>, Modifiers |-> <<>>])
                  EXCEPT !.Description = <<"A", "x", "e">>]
    /\ \E skill \in SkillValues :
          entity = MkEntity("pc", From(10), (SkillName :> skill), <<>>)
    /\ feat = [id \in FeatureIds |->
                 MkFeature([goType |-> "WeaponBonus",
                            Type |-> WeaponMinSTBonusFeatureType],
                           ThisWeaponWeaponSelectionType, AllAny, 0, FALSE, 0, 0)]
    /\ op = "idle" /\ ret = IdleRet /\ tooltip = NilBuf /\ pre = feat
    /\ procs = <<>> /\ mutex = NoMutex /\ rng = [pc |-> "off"]
    /\ val = NoValue /\ store = NoStore
    /\ hasher = [state |-> "on", digest |-> NewDigest, before |-> NewDigest,
                 calls |-> 0, results |-> <<>>]
    /\ prereq = [state |-> "on",
                 leaves |-> <<MkPrereq(FALSE, <<>>, "at_least", From(10)),
                              MkPrereq(TRUE, DexterityId, "at_most", From(20))>>,
                 results |-> <<>>]

\* The values of the fields HashCode hashes.
HashedFields(w, o, level) ==
    <<w.ID, w.Type, IF o.kind = "none" THEN <<>> ELSE o.Description, w.UsageNotes,
      w.Usage, level, w.Parry, w.Block, w.ResolvedDamage, w.Reach, w.Range,
      w.RateOfFire, w.Shots, w.Bulk, w.Recoil, w.Jet, w.WeaponAcc, w.ScopeAcc,
      w.MinST, w.Bipod, w.Mounted, w.MusketRest, w.TwoHanded, w.UnreadyAfterAttack>>

\* The two most recent results.
Remember(results, r) ==
    IF Len(results) < 2 THEN Append(results, r) ELSE <<results[2], r>>

Running == ret.kind # "panic"

\* A HashCode call that returned r (r.panic: it panicked instead).
HashCodeDone(isNil, r) ==
    /\ op' = "HashCode"
    /\ pre' = feat
    /\ feat' = r.feat
    /\ IF r.panic
       THEN /\ ret' = [kind |-> "panic", nilReceiver |-> isNil]
            /\ UNCHANGED hasher
       ELSE /\ ret' = [kind |-> "hash", nilReceiver |-> isNil, value |-> r.sum]
            /\ hasher' = [hasher EXCEPT !.results =
                            Remember(@, [sum |-> r.sum,
                                         fields |-> HashedFields(weapon, owner,
                                             SkillLevelFast(entity, weapon.Defaults[1]))])]
    /\ UNCHANGED <<weapon, owner, entity, tooltip, procs, mutex, rng, prereq, val, store>>

CallHashCode ==
    /\ Running
    /\ \E isNil \in BOOLEAN :
          HashCodeDone(isNil, HashCode(isNil, weapon, owner, entity, feat))

\* The weapon is edited between two calls: one field gets another value.
EditWeapon ==
    /\ Running
    /\ \/ \E v \in ParryTexts \ {weapon.Parry} : weapon' = [weapon EXCEPT !.Parry = v]
       \/ \E v \in BlockTexts \ {weapon.Block} : weapon' = [weapon EXCEPT !.Block = v]
    /\ UNCHANGED <<owner, entity, feat, op, ret, tooltip, pre, procs, mutex, rng,
                   hasher, prereq, val, store>>

\* The PC's skill changes, and with it the weapon's resolved skill level.
EditSkill ==
    /\ Running
    /\ \E v \in SkillValues \ {entity.Skills[SkillName]} :
          entity' = [entity EXCEPT !.Skills = (SkillName :> v)]
    /\ UNCHANGED <<weapon, owner, feat, op, ret, tooltip, pre, procs, mutex, rng,
                   hasher, prereq, val, store>>

\* AttributePrereq.Hash of a leaf, or of a nil leaf (0), into the digest.
CallPrereqHash ==
    /\ Running
    /\ \E i \in 0..Len(prereq.leaves) :
          /\ i # 0 => hasher.calls < MaxHashCalls
          /\ hasher' = [hasher EXCEPT
                          !.before = hasher.digest,
                          !.digest = PrereqHash(i = 0,
                                                prereq.leaves[IF i = 0 THEN 1 ELSE i],
                                                hasher.digest),
                          !.calls  = IF i = 0 THEN @ ELSE @ + 1]
          /\ op' = "Hash"
          /\ ret' = [kind |-> "none", nilReceiver |-> i = 0]
    /\ UNCHANGED <<weapon, owner, entity, feat, tooltip, pre, procs, mutex, rng, prereq, val, store>>

NextHash == CallHashCode \/ EditWeapon \/ EditSkill \/ CallPrereqHash

SpecHash == InitHash /\ [][NextHash]_vars

\* C14: the content hash is deterministic and sensitive to every hashed
\* field: of any two HashCode results, the sums differ if and only if the
\* hashed fields differ.
C14_HashDiffersIffFieldsDiffer ==
    \A i, j \in DOMAIN hasher.results :
        (hasher.results[i].sum # hasher.results[j].sum)
            <=> (hasher.results[i].fields # hasher.results[j].fields)

\* C15: hashing on a nil receiver is a no-op: it does not fail and leaves
\* the digest as it was.
C15_NilReceiverNoOp ==
    /\ op = "HashCode" /\ ret.nilReceiver => ret.kind # "panic"
    /\ op = "Hash" /\ ret.nilReceiver => hasher.digest = hasher.before

----------------------------------------------------------------------------
(* Prerequisite worlds: two attribute leaves evaluated, in any order and   *)
(* any number of times up to MaxEvaluations, against one tooltip buffer    *)
(* (or none) for an entity with a strength and a dexterity.                *)

\* Satisfied calls made against the one buffer.
MaxEvaluations == 2

LeafChoices ==
    { MkPrereq(has, combined, compare, From(10)) :
        has \in BOOLEAN, combined \in {<<>>, DexterityId},
        compare \in {"at_least", "at_most"} }

\* An entity with the two attributes, strength at st.
MkAttributeEntity(st) ==
    [Type |-> "pc",
     Attributes |-> (StrengthId  :> [current |-> st, name |-> "ST"])
                    @@ (DexterityId :> [current |-> From(1), name |-> "DX"])]

PrereqPrefix == "prefix"

InitPrereq ==
    /\ weapon = MkWeapon(FALSE, 0, 0, 0, <<>>)
    /\ owner = NoOwner
    /\ \E st \in {From(9), From(10)} : entity = MkAttributeEntity(st)
    /\ feat = [id \in FeatureIds |->
                 MkFeature([goType |-> "WeaponBonus",
                            Type |-> WeaponMinSTBonusFeatureType],
                           ThisWeaponWeaponSelectionType, AllAny, 0, FALSE, 0, 0)]
    /\ op = "idle" /\ ret = IdleRet /\ pre = feat
    /\ \E buf \in Buffers : tooltip = buf
    /\ procs = <<>> /\ mutex = NoMutex /\ rng = [pc |-> "off"]
    /\ val = NoValue /\ store = NoStore
    /\ hasher = NoHasher
    /\ \E p1 \in LeafChoices, p2 \in LeafChoices :
          prereq = [state |-> "on", leaves |-> <<p1, p2>>, results |-> <<>>]

\* AttributePrereq.Satisfied of leaf i with the caller's buffer.
CallSatisfied ==
    /\ Len(prereq.results) < MaxEvaluations
    /\ \E i \in DOMAIN prereq.leaves :
          LET r == Satisfied(prereq.leaves[i], entity, tooltip, PrereqPrefix)
          IN  /\ op' = "Satisfied"
              /\ ret' = [kind |-> "bool", value |-> r.satisfied]
              /\ tooltip' = r.tip
              /\ prereq' = [prereq EXCEPT !.results =
                              Append(@, [leaf |-> i, satisfied |-> r.satisfied])]
    /\ UNCHANGED <<weapon, owner, entity, feat, pre, procs, mutex, rng, hasher, val, store>>

NextPrereq == CallSatisfied

SpecPrereq == InitPrereq /\ [][NextPrereq]_vars

\* The calls so far that returned false, in order.
Failures == SelectSeq(prereq.results, LAMBDA r : ~r.satisfied)

\* C16: a failing attribute leaf explains itself: with a buffer, the buffer
\* holds one explanation (prefix, has text, attribute names, criteria) for
\* every Satisfied call that returned false, in call order, and nothing for
\* a call that returned true; without a buffer nothing is written.
C16_FailingLeafExplained ==
    /\ tooltip.isNil => tooltip.lines = <<>>
    /\ ~tooltip.isNil =>
          /\ Len(tooltip.lines) = Len(Failures)
          /\ \A k \in DOMAIN tooltip.lines :
                LET p == prereq.leaves[Failures[k].leaf]
                IN  /\ tooltip.lines[k].prefix = PrereqPrefix
                    /\ tooltip.lines[k].has = (IF p.Has THEN "Has" ELSE "Does not have")
                    /\ tooltip.lines[k].criteria
                          = <<p.QualifierCriteria.Compare, p.QualifierCriteria.Qualifier>>
                    /\ tooltip.lines[k].names
                          = (IF p.CombinedWith = <<>> THEN <<"ST">> ELSE <<"ST", "DX">>)

C16_Witness ==
    /\ ~tooltip.isNil
    /\ Len(prereq.results) = 2
    /\ prereq.results[1].leaf # prereq.results[2].leaf
    /\ ~prereq.results[1].satisfied /\ ~prereq.results[2].satisfied
    /\ Len(tooltip.lines) = 2
    /\ tooltip.lines[1] # tooltip.lines[2]

----------------------------------------------------------------------------
(* Worlds for the order of discovery: two weapon bonuses of every          *)
(* selection type, keyed to one of two skills, in either order on the      *)
(* owner, its modifiers and the PC's own list; a weapon with up to two     *)
(* defaults that tie or differ in level.                                   *)

OtherSkill == "Broadsword"

OrderDefaults ==
    { <<>>,
      <<SkillDefaultFor(SkillName)>>,
      <<SkillDefaultFor(SkillName), SkillDefaultFor(OtherSkill)>>,
      <<SkillDefaultFor(OtherSkill), SkillDefaultFor(SkillName)>>,
      <<[Type |-> "dx", Name |-> "", Specialization |-> "", Modifier |-> From(5)],
        SkillDefaultFor(OtherSkill)>>,
      <<SkillDefaultFor("Unknown"),
        [Type |-> "dx", Name |-> "", Specialization |-> "", Modifier |-> From(5)]>> }

OrderPlacements ==
    { [Features |-> <<1, 2>>, Modifiers |-> <<>>],
      [Features |-> <<2, 1>>, Modifiers |-> <<>>],
      [Features |-> <<>>,
       Modifiers |-> <<MkModifier(<<2>>, 0), MkModifier(<<1>>, 0)>>] }

OrderCriteria ==
    { [n |-> IsCriteria(SkillName), s |-> AnyCriteria, t |-> AnyCriteria],
      [n |-> IsCriteria(OtherSkill), s |-> AnyCriteria, t |-> AnyCriteria],
      AllAny }

InitOrder ==
    /\ \E place \in OrderPlacements : owner = MkOwner("equipment", "present", 0, place)
    /\ \E other \in {12, 13}, listed \in {<<>>, <<1, 2>>, <<2, 1>>} :
          entity = MkEntity("pc", From(10),
                            (SkillName :> From(12)) @@ (OtherSkill :> From(other)),
                            listed)
    /\ \E t1 \in {WeaponAccBonusFeatureType},
          s1 \in SelectionTypes \ {UnknownSelectionType}, c1 \in OrderCriteria,
          s2 \in SelectionTypes \ {UnknownSelectionType},
          c2 \in OrderCriteria \ {AllAny} :
          feat = [id \in FeatureIds |->
                    IF id = 1
                    THEN MkFeature([goType |-> "WeaponBonus", Type |-> t1],
                                   s1, c1, From(1), FALSE, 0, ModOf(owner, 1))
                    ELSE MkFeature([goType |-> "WeaponBonus",
                                    Type |-> WeaponAccBonusFeatureType],
                                   s2, c2, From(1), FALSE, 0, ModOf(owner, 2))]
    /\ \E defs \in OrderDefaults :
          weapon = MkWeapon(FALSE, From(1), 0, From(8), defs)
    /\ Quiet

SpecOrder == InitOrder /\ [][Next]_vars

\* The skill-based defaults the PC can resolve.
Qualifying ==
    {i \in DOMAIN weapon.Defaults :
        /\ weapon.Defaults[i].Type \in {"skill", "parry", "block"}
        /\ weapon.Defaults[i].Name \in DOMAIN entity.Skills}

DefaultLevel(i) == entity.Skills[weapon.Defaults[i].Name] + weapon.Defaults[i].Modifier

\* The earliest of the qualifying defaults of the greatest level.
FirstMaximum ==
    CHOOSE i \in Qualifying :
        /\ \A j \in Qualifying : DefaultLevel(j) <= DefaultLevel(i)
        /\ \A j \in Qualifying : DefaultLevel(j) = DefaultLevel(i) => i <= j

\* Bonus id is keyed to the skill of default i.
KeyedTo(id, i) ==
    /\ pre[id].Type \in ret.allowed
    /\ pre[id].SelectionType = WithRequiredSkillWeaponSelectionType
    /\ Matches(pre[id].NameCriteria, weapon.Defaults[i].Name)
    /\ Matches(pre[id].SpecializationCriteria, weapon.Defaults[i].Specialization)
    /\ MatchesList(pre[id].TagsCriteria, owner.Tags)

Listed(id) == \E k \in DOMAIN entity.weaponBonuses : entity.weaponBonuses[k] = id

\* C22: the default used for the skill-keyed bonuses is the skill-based
\* default of the greatest level, the earliest one on a tie; attribute
\* defaults and defaults the PC cannot resolve are never used; when no
\* default qualifies no skill-keyed bonus is collected.
C22_FirstMaximumDefault ==
    op = "collect" =>
        \A id \in FeatureIds :
            pre[id].SelectionType = WithRequiredSkillWeaponSelectionType =>
                ( id \in ret.set <=>
                    /\ Listed(id)
                    /\ Qualifying # {}
                    /\ KeyedTo(id, FirstMaximum) )

C22_Witness ==
    /\ op = "collect"
    /\ Len(weapon.Defaults) = 2
    /\ Qualifying = {1, 2}
    /\ DefaultLevel(1) = DefaultLevel(2)
    /\ weapon.Defaults[1].Name = OtherSkill
    /\ KeyedTo(1, 1) /\ ~KeyedTo(1, 2) /\ KeyedTo(2, 2) /\ ~KeyedTo(2, 1)
    /\ entity.weaponBonuses = <<2, 1>>
    /\ ret.set = {1}

\* Whether the named pass of the PC finds bonus id.
NamedHit(id) ==
    /\ pre[id].Type \in ret.allowed
    /\ pre[id].SelectionType = WithNameWeaponSelectionType
    /\ Matches(pre[id].NameCriteria, owner.Description)
    /\ Matches(pre[id].SpecializationCriteria, weapon.Usage)
    /\ MatchesList(pre[id].TagsCriteria, owner.Tags)

\* Whether the walk over the owner and its modifiers adds bonus id.
WalkHit(id) ==
    /\ pre[id].Type \in ret.allowed
    /\ \/ /\ pre[id].SelectionType = ThisWeaponWeaponSelectionType
          /\ Matches(pre[id].SpecializationCriteria, weapon.Usage)
       \/ NamedHit(id)

\* The contributing bonuses in the order the traversal discovers them.
Discovery ==
    SelectSeq(entity.weaponBonuses,
              LAMBDA id : Qualifying # {} /\ KeyedTo(id, FirstMaximum))
    \o SelectSeq(entity.weaponBonuses, NamedHit)
    \o SelectSeq([k \in DOMAIN Worklist(owner) |-> Worklist(owner)[k].id], WalkHit)

\* A sequence with only the first occurrence of each element.
FirstOccurrences(seq) ==
    LET keep == {k \in DOMAIN seq : \A j \in 1..(k - 1) : seq[j] # seq[k]}
        F[k \in 0..Len(seq)] ==
            IF k = 0 THEN <<>>
            ELSE IF k \in keep THEN Append(F[k - 1], seq[k]) ELSE F[k - 1]
    IN  F[Len(seq)]

\* C21: the explanations of one collectWeaponBonuses call stand in the
\* buffer in the order the contributing bonuses are first discovered
\* (skill-keyed bonuses of the best default, named bonuses, the owner's own
\* features, the modifiers' features), one line per contributing bonus and
\* none for any other; the order is a function of the owner graph alone.
C21_TooltipInDiscoveryOrder ==
    op = "collect" =>
        [k \in DOMAIN tooltip.lines |-> tooltip.lines[k].src]
            = FirstOccurrences(Discovery)

C21_Witness ==
    /\ op = "collect"
    /\ owner.Features = <<1, 2>>
    /\ entity.weaponBonuses = <<2, 1>>
    /\ pre[1].SelectionType = WithNameWeaponSelectionType
    /\ pre[2].SelectionType = WithRequiredSkillWeaponSelectionType
    /\ Len(tooltip.lines) = 2
    /\ tooltip.lines[1].src = 2
    /\ tooltip.lines[2].src = 1

\* Whether the criteria of leaf p match the value it tests on the entity.
CriteriaMatch(p) ==
    LET value == entity.Attributes[p.Which].current
                 + (IF p.CombinedWith = <<>> THEN 0
                    ELSE entity.Attributes[p.CombinedWith].current)
    IN  IF p.QualifierCriteria.Compare = "at_least"
        THEN value >= p.QualifierCriteria.Qualifier
        ELSE value <= p.QualifierCriteria.Qualifier

\* C23: Satisfied returns what the criteria say of the attribute value when
\* Has is true and the negation when Has is false, so two leaves that
\* differ only in Has get opposite verdicts on the same entity.
C23_HasInvertsVerdict ==
    /\ \A k \in DOMAIN prereq.results :
          LET p == prereq.leaves[prereq.results[k].leaf]
          IN  prereq.results[k].satisfied
                = (IF p.Has THEN CriteriaMatch(p) ELSE ~CriteriaMatch(p))
    /\ \A j, k \in DOMAIN prereq.results :
          LET p == prereq.leaves[prereq.results[j].leaf]
              q == prereq.leaves[prereq.results[k].leaf]
          IN  (p.Has # q.Has /\ [p EXCEPT !.Has = q.Has] = q)
                 => prereq.results[j].satisfied # prereq.results[k].satisfied

C23_Witness ==
    /\ Len(prereq.results) = 2
    /\ prereq.leaves[2] = [prereq.leaves[1] EXCEPT !.Has = FALSE]
    /\ prereq.leaves[1].Has
    /\ prereq.leaves[1].CombinedWith # <<>>
    /\ prereq.results[1].leaf = 1 /\ prereq.results[2].leaf = 2
    /\ ~prereq.results[1].satisfied /\ prereq.results[2].satisfied

----------------------------------------------------------------------------
(* Parry and block resolution: Weapon.resolvedValue (weapon.go).  The     *)
(* stored text is scanned line by line; a line that starts with a number  *)
(* gets that number added to the base value of the weapon's defaults.     *)

ParryID == "parry"
BlockID == "block"
SkillID == "skill"

\* fxp.Int.Div: f * multiplier / value, truncated toward zero.
Div(a, b) ==
    LET whole == Quot(a, b)
    IN  whole * FxpMultiplier + Quot((a - whole * b) * FxpMultiplier, b)

\* bufio.ScanLines drops one trailing carriage return of a line.
DropCR(line) ==
    IF line # <<>> /\ line[Len(line)] = "\r" THEN SubSeq(line, 1, Len(line) - 1)
    ELSE line

\* The tokens of bufio.Scanner over the text: the runs between newlines,
\* without a final empty one.
RECURSIVE ScanLines(_)
ScanLines(text) ==
    IF text = <<>> THEN <<>>
    ELSE LET nl == IndexByte(text, "\n")
         IN  IF nl = 0 THEN <<DropCR(text)>>
             ELSE <<DropCR(SubSeq(text, 1, nl - 1))>>
                  \o ScanLines(SubSeq(text, nl + 1, Len(text)))

\* for i < maximum && line[i] == ' ' { i++ }
RECURSIVE SkipSpaces(_, _)
SkipSpaces(line, i) ==
    IF i <= Len(line) /\ line[i] = " " THEN SkipSpaces(line, i + 1) ELSE i

\* for i < maximum && ch >= '0' && ch <= '9' { ... i++ }
RECURSIVE ScanDigits(_, _)
ScanDigits(line, i) ==
    IF i <= Len(line) /\ IsDigit(line[i]) THEN ScanDigits(line, i + 1) ELSE i

\* The scan of one line: whether it starts (after spaces) with an
\* optionally signed run of digits, the signed number, and what follows it.
ParseLine(line) ==
    LET i      == SkipSpaces(line, 1)
        signed == i <= Len(line) /\ line[i] \in {"-", "+"}
        start  == IF signed THEN i + 1 ELSE i
        stop   == ScanDigits(line, start)
        number == DigitsToInt(SubSeq(line, start, stop - 1), 0)
    IN  [found    |-> stop > start,
         modifier |-> IF signed /\ line[i] = "-" THEN -number ELSE number,
         rest     |-> SubSeq(line, stop, Len(line))]

\* What is written for a line: the number and the rest, or the line itself.
EmitLine(line, p, skillLevel) ==
    IF p.found THEN FxpString(Trunc(skillLevel + From(p.modifier))) \o p.rest
    ELSE line

\* Mutant: every default is halved, its own type included.
HalveUnlessOwnType_Always(level, def, baseDefaultType, adj) ==
    Trunc(Div(level, From(2)) + adj)

\* if baseDefaultType != def.Type() { level = (level.Div(fxp.Two) + adj).Trunc() }
HalveUnlessOwnType(level, def, baseDefaultType, adj) ==
    IF baseDefaultType # def.Type THEN Trunc(Div(level, From(2)) + adj) ELSE level

\* adj := fxp.Three, plus the PC's parry or block bonus.
DefenseAdjustment(e, baseDefaultType) ==
    From(3) + (IF baseDefaultType = ParryID THEN e.ParryBonus ELSE e.BlockBonus)

\* if def.Type() == SkillID && def.Name == "Karate"
IsKarate(def) == def.Type = SkillID /\ def.Name = "Karate"

\* The loop over the defaults; acc is [best, secondary], hasTip whether the
\* caller gave a tooltip.
RECURSIVE BestCandidate(_, _, _, _, _, _, _)
BestCandidate(e, defs, baseDefaultType, preAdj, postAdj, hasTip, acc) ==
    IF defs = <<>> THEN acc
    ELSE IF SkillLevelFast(e, Head(defs)) = FxpMin
    THEN BestCandidate(e, Tail(defs), baseDefaultType, preAdj, postAdj, hasTip, acc)
    ELSE LET def   == Head(defs)
             enc   == IF IsKarate(def)
                      THEN EncumbrancePenalty(e, IF hasTip THEN EmptyBuf ELSE NilBuf)
                      ELSE [value |-> 0, tip |-> NilBuf]
             level == HalveUnlessOwnType(SkillLevelFast(e, def) + preAdj, def,
                                         baseDefaultType,
                                         DefenseAdjustment(e, baseDefaultType))
                      + postAdj + enc.value
         IN  BestCandidate(e, Tail(defs), baseDefaultType, preAdj, postAdj, hasTip,
                           IF acc.best < level
                           THEN [best |-> level, secondary |-> enc.tip]
                           ELSE acc)

\* The base value once the base adjustment (base) is known: [value, feat, tip].
baseValueWith(w, e, baseDefaultType, buf, base) ==
    LET post == skillLevelPostAdjustment(w, e, base.tip)
        r    == BestCandidate(e, w.Defaults, baseDefaultType, base.value,
                              post.value, ~buf.isNil,
                              [best |-> FxpMin, secondary |-> NilBuf])
    IN  [value |-> FxpMaxOf(r.best, 0),
         feat  |-> base.feat,
         tip   |-> IF r.best # FxpMin /\ ~buf.isNil
                   THEN AppendBuffer(AppendBuffer(buf, post.tip), r.secondary)
                   ELSE buf]

\* The block under "if skillLevel == fxp.Max".
baseValue(w, o, e, heap, baseDefaultType, buf) ==
    baseValueWith(w, e, baseDefaultType, buf,
                  skillLevelBaseAdjustment(w, o, e, heap,
                                           IF buf.isNil THEN NilBuf ELSE EmptyBuf))

\* Mutant: the base value is computed for every numeric line.
NeedsSkillLevel_Always(skillLevel) == TRUE

\* if skillLevel == fxp.Max
NeedsSkillLevel(skillLevel) == skillLevel = FxpMax

----------------------------------------------------------------------------
(* ResolvedParry / ResolvedBlock, one line at a time.  val holds the       *)
(* locals of resolvedValue: the lines left to scan, the output buffer and  *)
(* skillLevel; calls and used record how often the base value was          *)
(* computed and which base value each numeric line was written with.       *)

MaxValueLen == 3

ValueAlphabet == {"2", "-", " ", "F", "\n"}

RECURSIVE ValueTextsOfLen(_)
ValueTextsOfLen(n) ==
    IF n = 0 THEN {<<>>}
    ELSE {Append(t, ch) : t \in ValueTextsOfLen(n - 1), ch \in ValueAlphabet}

ValueTexts ==
    UNION {ValueTextsOfLen(n) : n \in 0..MaxValueLen}
    \cup { <<"+", "1", "\n", "-", "1", "\n", "0", "U">>,
           <<"0", "\r", "\n", "1">> }

\* A PC's defensive bonuses on top of MkEntity.
MkDefender(type, st, skills, encumbrance, parryBonus, blockBonus) ==
    [ParryBonus |-> parryBonus, BlockBonus |-> blockBonus]
    @@ [MkEntity(type, st, skills, <<>>) EXCEPT !.EncumbrancePenalty = encumbrance]

\* Who holds the weapon: nobody, an item nobody carries, an item of a
\* non-player entity, or an item of a PC.
ValueHolders ==
    { [o |-> NoOwner, type |-> "npc"],
      [o |-> MkOwner("equipment", "none", 0, [Features |-> <<1, 2>>, Modifiers |-> <<>>]),
       type |-> "npc"],
      [o |-> MkOwner("equipment", "present", 0, [Features |-> <<1, 2>>, Modifiers |-> <<>>]),
       type |-> "npc"],
      [o |-> MkOwner("equipment", "present", 0, [Features |-> <<1, 2>>, Modifiers |-> <<>>]),
       type |-> "pc"] }

\* Feature 1: a skill bonus for this weapon; feature 2: a minimum-strength
\* bonus for this weapon.
ValueFeatures(skillBonus, minSTBonus) ==
    [id \in FeatureIds |->
        IF id = 1
        THEN MkFeature([goType |-> "SkillBonus", Type |-> SkillBonusFeatureType],
                       ThisWeaponWeaponSelectionType, AllAny, skillBonus, FALSE, 0, 0)
        ELSE MkFeature([goType |-> "WeaponBonus", Type |-> WeaponMinSTBonusFeatureType],
                       ThisWeaponWeaponSelectionType, AllAny, minSTBonus, FALSE, 0, 0)]

ValueQuiet ==
    /\ op = "idle" /\ ret = IdleRet /\ tooltip = NilBuf /\ pre = feat
    /\ procs = <<>> /\ mutex = NoMutex /\ rng = [pc |-> "off"]
    /\ hasher = NoHasher /\ prereq = NoPrereq
    /\ val = [pc |-> "ready"]
    /\ store = NoStore

InitValue ==
    /\ \E text \in ValueTexts :
          weapon = [MkWeapon(FALSE, 0, 0, From(11), <<SkillDefaultFor(SkillName)>>)
                      EXCEPT !.Parry = text, !.Block = text]
    /\ \E h \in ValueHolders :
          /\ owner = h.o
          /\ entity = MkDefender(h.type, From(10), (SkillName :> From(13)),
                                 From(-1), From(1), 0)
    /\ feat = ValueFeatures(From(1), From(1))
    /\ ValueQuiet

ValueFrame ==
    UNCHANGED <<weapon, owner, entity, procs, mutex, rng, hasher, prereq, store>>

\* Entry: without a PC the stored text is returned as it is; else the scan
\* starts with an empty buffer and skillLevel at fxp.Max.
ValueEnter ==
    /\ val.pc = "ready"
    /\ \E baseDefaultType \in {ParryID, BlockID}, buf \in Buffers :
          LET input == IF baseDefaultType = ParryID THEN weapon.Parry ELSE weapon.Block
          IN  /\ tooltip' = buf
              /\ pre' = feat
              /\ IF ~HasPC(owner, entity)
                 THEN /\ val' = [pc |-> "done", baseDefaultType |-> baseDefaultType,
                                 input |-> input, calls |-> 0, used |-> <<>>]
                      /\ op' = "resolvedValue"
                      /\ ret' = [kind |-> "text", value |-> input]
                 ELSE /\ val' = [pc |-> "scan", baseDefaultType |-> baseDefaultType,
                                 input |-> input, lines |-> ScanLines(input),
                                 buffer |-> <<>>, skillLevel |-> FxpMax,
                                 calls |-> 0, used |-> <<>>]
                      /\ op' = "scanning"
                      /\ ret' = IdleRet
    /\ UNCHANGED feat
    /\ ValueFrame

\* The separator written before a line when the buffer is not empty.
LineSeparator(buffer) == IF buffer # <<>> THEN <<"\n">> ELSE <<>>

\* A numeric line met with skillLevel still at fxp.Max: the base value r is
\* computed, kept and used.
FirstNumericLine(line, p, r) ==
    /\ val' = [val EXCEPT !.lines = Tail(@),
                          !.buffer = @ \o LineSeparator(@) \o EmitLine(line, p, r.value),
                          !.skillLevel = r.value,
                          !.calls = @ + 1,
                          !.used = Append(@, r.value)]
    /\ tooltip' = r.tip
    /\ feat' = r.feat

\* One pass of: for scanner.Scan() { ... }
ValueLine ==
    /\ val.pc = "scan"
    /\ val.lines # <<>>
    /\ LET line == Head(val.lines)
           p    == ParseLine(line)
       IN  IF p.found /\ NeedsSkillLevel(val.skillLevel)
           THEN FirstNumericLine(line, p,
                    baseValue(weapon, owner, entity, feat, val.baseDefaultType, tooltip))
           ELSE /\ val' = [val EXCEPT
                             !.lines = Tail(@),
                             !.buffer = @ \o LineSeparator(@)
                                          \o EmitLine(line, p, val.skillLevel),
                             !.used = IF p.found THEN Append(@, val.skillLevel) ELSE @]
                /\ UNCHANGED <<tooltip, feat>>
    /\ UNCHANGED <<op, ret, pre>>
    /\ ValueFrame

\* return buffer.String()
ValueReturn ==
    /\ val.pc = "scan"
    /\ val.lines = <<>>
    /\ val' = [pc |-> "done", baseDefaultType |-> val.baseDefaultType,
               input |-> val.input, calls |-> val.calls, used |-> val.used]
    /\ op' = "resolvedValue"
    /\ ret' = [kind |-> "text", value |-> val.buffer]
    /\ UNCHANGED <<tooltip, feat, pre>>
    /\ ValueFrame

\* The other resolvers, called while no text is being resolved.
ValueSkillLevel == val.pc = "ready" /\ CallSkillLevel

ValueCollect == val.pc = "ready" /\ Collect

NextValue == ValueEnter \/ ValueLine \/ ValueReturn \/ ValueSkillLevel \/ ValueCollect

SpecValue == InitValue /\ [][NextValue]_vars

\* The weapon has no owner, the owner no entity, or the entity is no PC.
NoOwningPC == owner.kind = "none" \/ owner.entity = "none" \/ entity.Type # "pc"

\* A parry / block resolution of a weapon of a PC has returned.
Resolved == op = "resolvedValue" /\ ~NoOwningPC

\* The lines of a text: what stands between its newlines (a newline at the
\* very end closes the last line and opens no other).
LineBreaks(text) == {k \in DOMAIN text : text[k] = "\n"}

LineStarts(text) ==
    {k \in DOMAIN text : k = 1 \/ text[k - 1] = "\n"}

LineFrom(text, k) ==
    LET ends == {j \in LineBreaks(text) : j >= k}
    IN  IF ends = {} THEN SubSeq(text, k, Len(text))
        ELSE SubSeq(text, k, (CHOOSE j \in ends : \A i \in ends : j <= i) - 1)

RECURSIVE SortedSeq(_)
SortedSeq(S) ==
    IF S = {} THEN <<>>
    ELSE LET least == CHOOSE x \in S : \A y \in S : x <= y
         IN  <<least>> \o SortedSeq(S \ {least})

TextLines(text) ==
    LET starts == SortedSeq(LineStarts(text))
    IN  [k \in DOMAIN starts |-> LineFrom(text, starts[k])]

\* Lines joined with one newline between neighbours.
RECURSIVE JoinLines(_)
JoinLines(lines) ==
    IF lines = <<>> THEN <<>>
    ELSE IF Len(lines) = 1 THEN lines[1]
    ELSE lines[1] \o <<"\n">> \o JoinLines(Tail(lines))

\* The leading token of a line: spaces, an optional sign, digits.
Blanks(line) ==
    Cardinality({k \in DOMAIN line : \A j \in 1..k : line[j] = " "})

SignAt(line, k) == IF k <= Len(line) /\ line[k] \in {"+", "-"} THEN 1 ELSE 0

DigitRun(line, k) ==
    Cardinality({j \in k..Len(line) : \A i \in k..j : IsDigit(line[i])})

TokenEnd(line) ==
    Blanks(line) + SignAt(line, Blanks(line) + 1)
    + DigitRun(line, Blanks(line) + SignAt(line, Blanks(line) + 1) + 1)

HasNumber(line) ==
    DigitRun(line, Blanks(line) + SignAt(line, Blanks(line) + 1) + 1) > 0

NumberOf(line) ==
    LET first  == Blanks(line) + SignAt(line, Blanks(line) + 1) + 1
        number == DigitsToInt(SubSeq(line, first, TokenEnd(line)), 0)
    IN  IF SignAt(line, Blanks(line) + 1) = 1 /\ line[Blanks(line) + 1] = "-"
        THEN -number ELSE number

\* The line the resolution shows for a stored line, given the base value.
ShownLine(line, base) ==
    IF HasNumber(line)
    THEN FxpString(Trunc(base + From(NumberOf(line))))
         \o SubSeq(line, TokenEnd(line) + 1, Len(line))
    ELSE line

\* The base value the call used (0 when it computed none).
BaseUsed == IF val.used = <<>> THEN 0 ELSE val.used[1]

\* C24: with an owning PC the resolved text is the stored text line by
\* line: a line starting (after spaces) with an optionally signed number
\* shows trunc(base + number) followed by the rest of the line, any other
\* line (an empty one too) is shown as it is, and the lines keep their
\* order with a newline between them.
C24_LineByLine ==
    Resolved =>
        ret.value = JoinLines([k \in DOMAIN TextLines(val.input) |->
                                 ShownLine(TextLines(val.input)[k], BaseUsed)])

\* The same for texts that neither start with an empty line nor hold a
\* carriage return.
C24_LineByLineAfterFirstText ==
    (Resolved /\ val.input # <<>> /\ val.input[1] # "\n"
       /\ ~Contains(val.input, "\r")) =>
        ret.value = JoinLines([k \in DOMAIN TextLines(val.input) |->
                                 ShownLine(TextLines(val.input)[k], BaseUsed)])

\* The lines of the stored text that start with a number.
NumericLines ==
    {k \in DOMAIN TextLines(val.input) : HasNumber(TextLines(val.input)[k])}

\* C25: one ResolvedParry / ResolvedBlock call computes the base value at
\* most once, at its first numeric line, and every numeric line is written
\* with that value; what the computation explains (minimum-strength
\* penalty, bonuses, encumbrance) is in the caller's tooltip once, however
\* many lines there are; a text without a numeric line computes nothing and
\* writes nothing.
C25_BaseComputedOnce ==
    /\ val.pc \in {"scan", "done"} => val.calls <= 1
    /\ Resolved =>
          /\ val.calls = (IF NumericLines = {} THEN 0 ELSE 1)
          /\ Len(val.used) = Cardinality(NumericLines)
          /\ \A k \in DOMAIN val.used : val.used[k] = val.used[1]
          /\ tooltip.lines =
               IF NumericLines = {} THEN <<>>
               ELSE baseValue(weapon, owner, entity, pre, val.baseDefaultType,
                              [isNil |-> tooltip.isNil, lines |-> <<>>]).tip.lines

C25_Witness ==
    /\ Resolved
    /\ Cardinality(NumericLines) = 2
    /\ Len(TextLines(val.input)) = 2
    /\ val.calls = 1
    /\ val.used = <<val.used[1], val.used[1]>>
    /\ Len(tooltip.lines) = 2
    /\ tooltip.lines[1] = NoteLine("minST", From(-2))
    /\ tooltip.lines[2].src = 1

\* C30: without an owning PC (no owner, an owner nobody carries, or an
\* entity that is no PC) SkillLevel returns 0, ResolvedParry and
\* ResolvedBlock return the stored text as it is, collectWeaponBonuses
\* returns no bonus, and none of them writes the tooltip or a bonus Level.
C30_NoPCIdentity ==
    NoOwningPC =>
        /\ tooltip.lines = <<>>
        /\ feat = ValueFeatures(From(1), From(1))
        /\ op = "SkillLevel" => ret.value = 0
        /\ op = "resolvedValue" =>
              /\ ret.value = (IF val.baseDefaultType = ParryID THEN weapon.Parry
                              ELSE weapon.Block)
              /\ val.calls = 0
        /\ op = "collect" => ret.set = {} /\ ret.len = 0

C30_Witness ==
    /\ entity.Type = "npc"
    /\ owner.entity = "present"
    /\ op = "resolvedValue"
    /\ ~tooltip.isNil
    /\ val.input = <<"2", "\n", "2">>
    /\ ret.value = <<"2", "\n", "2">>

----------------------------------------------------------------------------
(* Worlds for the base value: every list of up to two defaults among       *)
(* Karate, a parry, a block, a skill, an unknown skill and an attribute,   *)
(* with and without encumbrance, a strength shortfall, a skill bonus and   *)
(* a fencing parry.                                                        *)

BaseDefaultChoices ==
    { SkillDefaultFor("Karate"),
      [SkillDefaultFor(SkillName) EXCEPT !.Type = ParryID],
      [SkillDefaultFor(SkillName) EXCEPT !.Type = BlockID],
      SkillDefaultFor(SkillName),
      SkillDefaultFor("Unknown"),
      [Type |-> "dx", Name |-> "", Specialization |-> "", Modifier |-> From(-5)] }

BaseDefaultLists ==
    {<<>>} \cup {<<d>> : d \in BaseDefaultChoices}
           \cup {<<d1, d2>> : d1 \in BaseDefaultChoices, d2 \in BaseDefaultChoices}

BaseTexts == { <<"0">>, <<"-", "2", "\n", "1", "F">> }

InitBase ==
    /\ \E text \in BaseTexts, minST \in {0, 11}, defs \in BaseDefaultLists :
          weapon = [MkWeapon(FALSE, 0, 0, From(minST), defs)
                      EXCEPT !.Parry = text, !.Block = text]
    /\ owner = MkOwner("equipment", "present", 0,
                       [Features |-> <<1, 2>>, Modifiers |-> <<>>])
    /\ \E karate \in {1, 16, 20}, encumbrance \in {0, -2} :
          entity = MkDefender("pc", From(10),
                              (SkillName :> From(12)) @@ ("Karate" :> From(karate)),
                              From(encumbrance), From(1), From(2))
    /\ \E skillBonus \in {0, 1} : feat = ValueFeatures(From(skillBonus), From(1))
    /\ ValueQuiet

SpecBase == InitBase /\ [][NextValue]_vars

\* The defaults the PC can resolve, and the level of each.
Usable ==
    {i \in DOMAIN weapon.Defaults :
        weapon.Defaults[i].Type = "dx" \/ weapon.Defaults[i].Name \in DOMAIN entity.Skills}

LevelOf(i) ==
    (IF weapon.Defaults[i].Type = "dx" THEN entity.DX
     ELSE entity.Skills[weapon.Defaults[i].Name]) + weapon.Defaults[i].Modifier

\* The base adjustment in these worlds: the strength shortfall and the
\* skill bonus of feature 1.
ShortfallHere ==
    FxpMaxOf(0, weapon.MinST + pre[2].Amount - entity.StrikingStrength)

BaseAdjustmentHere == pre[1].Amount - ShortfallHere

\* The fencing post-adjustment.
FencingHere ==
    IF weapon.Type = "melee_weapon" /\ Contains(weapon.Parry, "F")
    THEN entity.EncumbrancePenalty ELSE 0

\* A candidate: level + base adjustment, halved (plus 3 and the PC's parry
\* or block bonus, truncated) unless the default is of the field's own
\* type, then the fencing adjustment.
CandidateOf(i, field) ==
    LET c == LevelOf(i) + BaseAdjustmentHere
    IN  (IF weapon.Defaults[i].Type # field
         THEN Trunc(Quot(c, 2) + From(3)
                    + (IF field = ParryID THEN entity.ParryBonus
                       ELSE entity.BlockBonus))
         ELSE c)
        + FencingHere

KarateAt(i) ==
    weapon.Defaults[i].Type = "skill" /\ weapon.Defaults[i].Name = "Karate"

\* The encumbrance penalty a Karate default carries.
KaratePenalty(i) == IF KarateAt(i) THEN entity.EncumbrancePenalty ELSE 0

\* The numeric lines were written with base value b.
WrittenWith(b) ==
    /\ \A k \in DOMAIN val.used : val.used[k] = b
    /\ ret.value = JoinLines([k \in DOMAIN TextLines(val.input) |->
                                ShownLine(TextLines(val.input)[k], b)])

C26_KarateOnlyForParry ==
    (Resolved /\ NumericLines # {}) =>
        WrittenWith(
            IF Usable = {} THEN 0
            ELSE FxpMaxOf(0, SetMax({CandidateOf(i, val.baseDefaultType)
                                       + (IF val.baseDefaultType = ParryID
                                          THEN KaratePenalty(i) ELSE 0)
                                     : i \in Usable})))

----------------------------------------------------------------------------
(* Cloning: Weapon.Clone (weapon.go) and ConditionalModifier.Clone.        *)
(* Objects that Go holds behind pointers live in store: weapons, defaults  *)
(* and features are sequences indexed by address; a weapon's Defaults is   *)
(* a slice of default addresses, its Damage a value that points back at    *)
(* the weapon.                                                             *)

NilSlice == [isNil |-> TRUE, elems |-> <<>>]

SliceOf(elems) == [isNil |-> FALSE, elems |-> elems]

\* uuid.New(): an ID no weapon carries yet.
NewID(st) == st.nextID

\* WeaponDamage.Clone(owner): the same damage, owned by the new weapon.
DamageClone(damage, newOwner) == [damage EXCEPT !.Owner = newOwner]

\* Mutant: the clone's slice holds the original's elements.
CopyDefaults_Shared(heap, defs) ==
    [heap |-> heap, defs |-> IF defs.isNil THEN defs ELSE SliceOf(defs.elems)]

\* if other.Defaults != nil { a new slice with a copy of every element }
CopyDefaults(heap, defs) ==
    IF defs.isNil THEN [heap |-> heap, defs |-> defs]
    ELSE [heap |-> heap \o [k \in DOMAIN defs.elems |-> heap[defs.elems[k]]],
          defs |-> SliceOf([k \in DOMAIN defs.elems |-> Len(heap) + k])]

\* The rest of Weapon.Clone once the defaults are copied.
CloneWith(st, at, preserveID, copied) ==
    [st EXCEPT
        !.weapons = Append(@,
            [st.weapons[at] EXCEPT
                !.ID = IF preserveID THEN @ ELSE NewID(st),
                !.Damage = DamageClone(@, Len(st.weapons) + 1),
                !.Defaults = copied.defs]),
        !.defaults = copied.heap,
        !.nextID = IF preserveID THEN @ ELSE @ + 1,
        !.preserved = preserveID]

\* Weapon.Clone of the weapon at address at; the clone is the last weapon.
Clone(st, at, preserveID) ==
    CloneWith(st, at, preserveID, CopyDefaults(st.defaults, st.weapons[at].Defaults))

\* ConditionalModifier.Clone: other := *c; return &other
FeatureClone(st, at) ==
    [st EXCEPT !.features = Append(@, @[at]), !.cloned = Len(st.features) + 1]

DefaultShapes == { NilSlice, SliceOf(<<>>), SliceOf(<<1>>), SliceOf(<<1, 2>>) }

InitClone ==
    /\ weapon = MkWeapon(FALSE, 0, 0, 0, <<>>)
    /\ owner = NoOwner
    /\ entity = MkEntity("npc", From(10), <<>>, <<>>)
    /\ feat = ValueFeatures(0, 0)
    /\ op = "idle" /\ ret = IdleRet /\ tooltip = NilBuf /\ pre = feat
    /\ procs = <<>> /\ mutex = NoMutex /\ rng = [pc |-> "off"]
    /\ hasher = NoHasher /\ prereq = NoPrereq /\ val = NoValue
    /\ \E defs \in DefaultShapes :
          store = [state    |-> "on",
                   weapons  |-> << [ID |-> 1, Usage |-> WeaponUsage,
                                    Damage |-> [Owner |-> 1, Base |-> "1d"],
                                    Defaults |-> defs] >>,
                   defaults |-> <<SkillDefaultFor(SkillName), SkillDefaultFor(OtherSkill)>>,
                   features |-> << MkFeature([goType |-> "ConditionalModifier",
                                              Type |-> ConditionalModifierFeatureType],
                                             ThisWeaponWeaponSelectionType, AllAny,
                                             From(1), FALSE, 0, 0) >>,
                   set      |-> {},
                   cloned   |-> 0,
                   nextID   |-> 2,
                   preserved |-> FALSE]

CloneFrame ==
    UNCHANGED <<weapon, owner, entity, feat, op, ret, tooltip, pre, procs, mutex,
                rng, hasher, prereq, val>>

CallClone ==
    /\ Len(store.weapons) = 1
    /\ \E preserveID \in BOOLEAN : store' = Clone(store, 1, preserveID)
    /\ CloneFrame

CallFeatureClone ==
    /\ Len(store.features) = 1
    /\ store' = FeatureClone(store, 1)
    /\ CloneFrame

\* A write through one element of a weapon's Defaults.
SetDefaultModifier ==
    /\ \E at \in DOMAIN store.weapons, value \in {0, From(-1)} :
          \E k \in DOMAIN store.weapons[at].Defaults.elems :
             store' = [store EXCEPT
                         !.defaults[store.weapons[at].Defaults.elems[k]].Modifier = value]
    /\ CloneFrame

\* A write to a field of a weapon and to its damage.
SetUsage ==
    /\ \E at \in DOMAIN store.weapons, value \in {WeaponUsage, "Thrust"} :
          store' = [store EXCEPT !.weapons[at].Usage = value]
    /\ CloneFrame

SetDamageBase ==
    /\ \E at \in DOMAIN store.weapons, value \in {"1d", "2d"} :
          store' = [store EXCEPT !.weapons[at].Damage.Base = value]
    /\ CloneFrame

\* ConditionalModifier.SetLevel
SetLevel ==
    /\ \E at \in DOMAIN store.features, level \in {0, From(1)} :
          store' = [store EXCEPT !.features[at].Level = level]
    /\ CloneFrame

\* The aggregation set, a map keyed by the feature's pointer.
Gather ==
    /\ \E at \in DOMAIN store.features :
          /\ at \notin store.set
          /\ store' = [store EXCEPT !.set = @ \cup {at}]
    /\ CloneFrame

NextClone ==
    \/ CallClone
    \/ CallFeatureClone
    \/ SetDefaultModifier
    \/ SetUsage
    \/ SetDamageBase
    \/ SetLevel
    \/ Gather

SpecClone == InitClone /\ [][NextClone]_vars

\* Everything one can read through the weapon at an address: its fields,
\* its damage and the defaults its slice points at.
Deep(at) ==
    [ID |-> store.weapons[at].ID, Usage |-> store.weapons[at].Usage,
     Base |-> store.weapons[at].Damage.Base,
     isNil |-> store.weapons[at].Defaults.isNil,
     Defaults |-> [k \in DOMAIN store.weapons[at].Defaults.elems |->
                     store.defaults[store.weapons[at].Defaults.elems[k]]]]

ElementsOf(at) ==
    {store.weapons[at].Defaults.elems[k] : k \in DOMAIN store.weapons[at].Defaults.elems}

\* The clone stands apart from the original.
CloneApart ==
    /\ Len(store.weapons) = 2 =>
          /\ ~store.preserved => store.weapons[2].ID # store.weapons[1].ID
          /\ ElementsOf(1) \cap ElementsOf(2) = {}
          /\ store.weapons[2].Damage.Owner = 2 /\ store.weapons[1].Damage.Owner = 1
    /\ store.cloned # 0 =>
          /\ store.cloned # 1
          /\ {1, store.cloned} \subseteq store.set => Cardinality(store.set) = 2

\* C27: Clone gives an independent deep copy with a fresh identity: without
\* preserveID the clone's ID differs from the original's; the clone's
\* defaults and damage are copies of its own, so a step that writes to one
\* weapon (a field, its damage, one of its defaults) leaves everything
\* readable through the other as it was; a cloned feature is another
\* instance, changed and held in the aggregation set apart from the
\* original.
C27_CloneIndependent ==
    [][ /\ CloneApart'
        /\ \A a, b \in DOMAIN store.weapons :
              a # b => (Deep(a)' = Deep(a) \/ Deep(b)' = Deep(b))
        /\ \A a, b \in DOMAIN store.features :
              a # b => (store'.features[a] = store.features[a]
                        \/ store'.features[b] = store.features[b]) ]_vars

C27_Witness ==
    /\ Len(store.weapons) = 2
    /\ ~store.preserved
    /\ Len(store.weapons[1].Defaults.elems) = 2
    /\ Deep(1).Defaults[1].Modifier = 0
    /\ Deep(2).Defaults[1].Modifier = From(-1)
    /\ Deep(1).Usage # Deep(2).Usage
    /\ Deep(1).Base # Deep(2).Base
    /\ store.cloned = 2
    /\ store.features[1].Level # store.features[2].Level
    /\ store.set = {1, 2}

----------------------------------------------------------------------------
(* The allowed-kind filter, on the aggregation worlds. *)

\* A feature the filter lets through: a weapon bonus of an allowed type.
LetThrough(id, allowed) ==
    pre[id].goType = "WeaponBonus" /\ pre[id].Type \in allowed

\* The owner and the entity with only the features the filter lets through.
OwnerKeeping(allowed) ==
    [owner EXCEPT
        !.Features = SelectSeq(@, LAMBDA id : LetThrough(id, allowed)),
        !.Modifiers = [m \in DOMAIN @ |->
                         [@[m] EXCEPT !.Features =
                             SelectSeq(@, LAMBDA id : LetThrough(id, allowed))]]]

EntityKeeping(allowed) ==
    [entity EXCEPT !.weaponBonuses = SelectSeq(@, LAMBDA id : LetThrough(id, allowed))]

AccuracyKinds == {WeaponAccBonusFeatureType, WeaponScopeAccBonusFeatureType}

\* C28: only a weapon bonus of an allowed feature type is ever added: a
\* feature of another type, or one that is no weapon bonus, is in neither
\* the set nor the tooltip and keeps its Level; so the minimum strength is
\* what it is without every feature that is no minimum-strength bonus, and
\* the accuracy what it is without every feature that is no accuracy bonus.
C28_AllowedKindsOnly ==
    /\ op = "collect" =>
          \A id \in FeatureIds :
              ~LetThrough(id, ret.allowed) =>
                  /\ id \notin ret.set
                  /\ LinesOf(id) = 0
                  /\ feat[id].Level = pre[id].Level
    /\ op = "ResolvedMinimumStrength" =>
          ret.value = ResolvedMinimumStrength(
                          weapon, OwnerKeeping({WeaponMinSTBonusFeatureType}),
                          EntityKeeping({WeaponMinSTBonusFeatureType}),
                          pre, NilBuf).value
    /\ op = "ResolvedAccuracy" =>
          LET r == ResolvedAccuracy(weapon, OwnerKeeping(AccuracyKinds),
                                    EntityKeeping(AccuracyKinds), pre, NilBuf)
          IN  ret.weapon = r.weapon /\ ret.scope = r.scope

C28_Witness ==
    /\ op = "ResolvedMinimumStrength"
    /\ OnWorklist(1)
    /\ entity.weaponBonuses = <<>>
    /\ pre[1].goType = "WeaponBonus"
    /\ pre[1].Type = WeaponAccBonusFeatureType
    /\ pre[1].SelectionType = ThisWeaponWeaponSelectionType
    /\ Matches(pre[1].SpecializationCriteria, weapon.Usage)
    /\ pre[2].Type = WeaponMinSTBonusFeatureType
    /\ ret.value = weapon.MinST + pre[2].Amount
    /\ ~tooltip.isNil
    /\ LinesOf(1) = 0
    /\ LinesOf(2) = 1
====
